---- MODULE Spec2Model ----
(***************************************************************************)
(* A model of the return-label mailer: the mail-label handler              *)
(* (src/api/mail-label.js, lines 1-418), the create-label handler it calls *)
(* over HTTP (src/api/create-label.js), the access-code draft of the       *)
(* mail-label handler (src/unnamed/part_001, lines 1-180) and the page     *)
(* layout of buildInstructionsPlusLabelPdf.                                *)
(*                                                                         *)
(* One client request is in flight at a time.  A handler runs from one     *)
(* await to the next in one action; what an external service answers is    *)
(* chosen when the await resolves.                                         *)
(***************************************************************************)
EXTENDS Integers, Sequences, FiniteSets, TLC

VARIABLES
    env,            \* process.env: which settings are present
    nreq,           \* requests received so far
    target,         \* endpoint the client called
    req,            \* the request line and headers the handler has in hand
    pc,             \* position of the mail-label handler
    body,           \* mail-label: const body
    labelResp,      \* mail-label: labelResp/labelJson
    trackingNumber, \* mail-label: const trackingNumber
    lobResp,        \* mail-label: lobResp/lobJson
    pending,        \* mail-label: the sendJson that follows the awaited postToSheets
    res,            \* what the client has been sent
    cpc,            \* position of the create-label handler
    cbody,          \* create-label: const body
    cl,             \* create-label: accessToken, idempotencyKey, labelData, sheetsLogged
    cres,           \* what create-label has sent to its caller
    calls,          \* network calls started on behalf of the current request, in order
    audits,         \* audit records handed to the webhook for the current request, in order
    issued,         \* every carrier label call so far: its Idempotency-Key and content
    uuid,           \* how many keys crypto.randomUUID has produced
    page,           \* layout: the embedded label page
    instr,          \* layout: power-off-instructions.pdf, if it is there
    out,            \* layout: the pages of the composed document
    layout,         \* layout: what buildInstructionsPlusLabelPdf draws
    parked,         \* event loop: the locals of the invocations waiting at an await
    cur,            \* event loop: the invocation whose locals are the variables above
    now,            \* what Date.now() returns
    refresh         \* token refresh test: its position, resp/data and what it has sent

vars == <<env, nreq, target, req, pc, body, labelResp, trackingNumber, lobResp,
          pending, res, cpc, cbody, cl, cres, calls, audits, issued, uuid,
          page, instr, out, layout, parked, cur, now, refresh>>

mlVars == <<pc, body, labelResp, trackingNumber, lobResp, pending, res>>
clVars == <<cpc, cbody, cl, cres>>
layoutVars == <<page, instr, out, layout>>
loopVars == <<parked, cur, now>>

-----------------------------------------------------------------------------
(* Bounds of the model *)

MaxRequests == 2    \* requests handled one after the other
MaxOdd == 2         \* parameters of one body that differ from the plain body
MaxInstrPages == 3  \* pages of the instructions document
MaxConcurrent == 2  \* invocations of the handlers in flight at once
MaxClock == 1       \* readings of the clock after the first
WholeBits == 15     \* binary digits kept before the point of a length
FractionBits == 54  \* binary digits kept after the point of a length
MaxInches == 8      \* label pages up to MaxInches x MaxInches inches

-----------------------------------------------------------------------------
(* Request bodies *)

\* The seven required fields, in the order both handlers test them.
Fields == <<"name", "address1", "city", "state", "zip", "phone", "deviceType">>

FieldSet == {Fields[i] : i \in 1..Len(Fields)}

\* What a field of the JSON body can hold: nothing, null, a string that is
\* empty once trimmed, or a string with text in it.
FieldVals == {"absent", "null", "blank", "text"}

\* A field that is no string: the number 0, another number, false, true.
TypedVals == {"zero", "number", "false", "true"}

\* weightOz and weightLbs as Number(...) sees them; 0 stands for every value
\* that is absent, not finite or not positive.
OzVals == {0, 16, 20, 32}
LbsVals == {0, 1, 2, 3}

Odd(f) == {k \in FieldSet : f[k] # "text"}

\* How far a body is from the plain one: every required field a string with
\* text, no weight given, no skipLogging.
Deviations(f, oz, lbs, sk) ==
    Cardinality(Odd(f)) + (IF oz # 0 THEN 1 ELSE 0) + (IF lbs # 0 THEN 1 ELSE 0)
        + (IF sk THEN 1 ELSE 0)

\* The bodies with one field that is no string, the others plain.
TypedMaps ==
    {[k \in FieldSet |-> IF k = j THEN v ELSE "text"] : j \in FieldSet, v \in TypedVals}

\* The bodies with one field that is the number 0 and another left out.
MixedMaps ==
    {[k \in FieldSet |-> IF k = j THEN "zero" ELSE IF k = i THEN "absent" ELSE "text"] :
        i, j \in FieldSet}

FieldMaps == {g \in [FieldSet -> FieldVals] : Cardinality(Odd(g)) <= MaxOdd}

\* The bodies whose fields are strings or missing.
StringBodies ==
    {[kind |-> "object", f |-> x[1], weightOz |-> x[2], weightLbs |-> x[3], skipLogging |-> x[4]] :
        x \in {y \in FieldMaps \X OzVals \X LbsVals \X BOOLEAN :
                    Deviations(y[1], y[2], y[3], y[4]) <= MaxOdd}}

\* The bodies with a field that is no string give no weight and no skipLogging.
TypedBodies ==
    {[kind |-> "object", f |-> g, weightOz |-> 0, weightLbs |-> 0, skipLogging |-> FALSE] :
        g \in TypedMaps \cup MixedMaps}

ObjectBodies == StringBodies \cup TypedBodies

NoFields == [k \in FieldSet |-> "absent"]

\* req.body as a string holding the JSON literal null, and as a string that
\* is no JSON at all.
NullBody == [kind |-> "null", f |-> NoFields, weightOz |-> 0, weightLbs |-> 0, skipLogging |-> FALSE]
MalformedBody == [kind |-> "malformed", f |-> NoFields, weightOz |-> 0, weightLbs |-> 0, skipLogging |-> FALSE]
NoBody == [kind |-> "unread", f |-> NoFields, weightOz |-> 0, weightLbs |-> 0, skipLogging |-> FALSE]

Bodies == ObjectBodies \cup {NullBody, MalformedBody}

-----------------------------------------------------------------------------
(* Values *)

NullField == "null"     \* requireField's null
Text == "x"             \* the trimmed text of a field that has some
TRK == "TRK1"           \* a tracking number of the carrier
LTR == "ltr_1"          \* a letter id of the mail provider

Methods == {"POST", "GET"}

\* The Authorization header: none; one that does not start with "Basic ";
\* base64 that decodes to text without a colon; a pair with the wrong user;
\* a pair with the wrong password; the configured pair.
AuthVals == {"absent", "notBasic", "noColon", "wrongUser", "wrongPass", "valid"}

ExpectedUser == "user"
ExpectedPass == "pass"

NoCreds == [parsed |-> FALSE, user |-> "", pass |-> ""]

\* A JSON response.  service_type, label_id and postage are what a reader of
\* the JSON finds under those names: "" and 0 when the object has no such key.
Res(status, ok, error) ==
    [status |-> status, ok |-> ok, error |-> error, fields |-> <<>>, httpStatus |-> 0,
     trackingNumber |-> "", letterId |-> "", lobStatus |-> "", labelData |-> "none",
     sheetsLogged |-> "none", service_type |-> "", label_id |-> "", postage |-> 0]

NoRes == Res(0, FALSE, "")

NoLabelResp == [ok |-> FALSE, status |-> 0, json |-> FALSE, jsonOk |-> FALSE,
                labelData |-> "none", trackingNumber |-> "",
                service_type |-> "", label_id |-> "", postage |-> 0]

NoLobResp == [ok |-> FALSE, status |-> 0, id |-> "", lstatus |-> ""]

\* let sheetsLogged = null: the value postToSheets returns without a webhook.
NoCl == [skipLogging |-> FALSE, weightOz |-> 0, accessToken |-> FALSE, idempotencyKey |-> 0,
         trackingNumber |-> "", maybeBase64 |-> "none", href |-> FALSE, sheetsLogged |-> "skipped",
         service_type |-> "", label_id |-> "", postage |-> 0,
         token |-> "none", carrier |-> "none", doc |-> "none"]

SheetsOutcomes == {"ok", "rejected", "error"}

-----------------------------------------------------------------------------
(* mail-label.js: helpers *)

\* if (!expectedUser || !expectedPass)
mailConfigMissing == ~env.mail

\* Mutant: the mail-provider key is not looked for.
lobKeyMissingNever == FALSE

\* if (!process.env.LOB_API_KEY)
lobKeyMissing == ~env.lob

parseBasicAuth(header) ==
    CASE header \in {"absent", "notBasic"} -> NoCreds
      [] header = "noColon" -> NoCreds
      [] header = "wrongUser" -> [parsed |-> TRUE, user |-> "other", pass |-> ExpectedPass]
      [] header = "wrongPass" -> [parsed |-> TRUE, user |-> ExpectedUser, pass |-> "other"]
      [] OTHER -> [parsed |-> TRUE, user |-> ExpectedUser, pass |-> ExpectedPass]

\* Mutant: the password is not compared.
credsRejectedUserOnly(creds) ==
    \/ ~creds.parsed
    \/ creds.user # ExpectedUser

\* if (!creds || creds.user !== expectedUser || creds.pass !== expectedPass)
credsRejected(creds) ==
    \/ ~creds.parsed
    \/ creds.user # ExpectedUser
    \/ creds.pass # ExpectedPass

\* String(v) of a number or a boolean has text: "0", "false".
requireField(b, key) ==
    IF b.kind # "object" THEN NullField
    ELSE CASE b.f[key] \in {"absent", "null"} -> NullField
           [] b.f[key] = "blank" -> NullField
           [] OTHER -> Text

\* value || ""
OrEmpty(v) == IF v = NullField THEN "" ELSE v

\* Mutant: the fields are tested last to first.
missingFieldsReversed(b) ==
    LET m == SelectSeq(Fields, LAMBDA k : requireField(b, k) = NullField)
    IN [i \in 1..Len(m) |-> m[Len(m) + 1 - i]]

\* The if (!x) missing.push("x") lines, in their order.
missingFields(b) == SelectSeq(Fields, LAMBDA k : requireField(b, k) = NullField)

\* null is written 0.
normalizeWeightOz(b) ==
    IF b.weightOz > 0 THEN b.weightOz
    ELSE IF b.weightLbs > 0 THEN b.weightLbs * 16
    ELSE 0

postToSheets(log, payload) == IF env.hook THEN Append(log, payload) ELSE log

\* Mutant: the webhook is called whether or not its URL is configured.
sheetsFetchAlways(cs) == Append(cs, "audit")

\* if (!webhookUrl) return null; otherwise one fetch of the webhook.
sheetsFetch(cs) == IF env.hook THEN Append(cs, "audit") ELSE cs

\* The keys of the records the mail-label handler builds (lines 168-198,
\* 215-245, 300-330, 343-375 and 388-413 name the same ones).
MailLabelKeys ==
    {"request_id", "lob_letter_id", "source", "created_at_iso",
     "customer_name", "customer_email", "customer_phone",
     "from_address1", "from_address2", "from_city", "from_state", "from_zip",
     "device_type", "device_serial", "return_reason", "weight_oz",
     "service_type", "tracking_number", "label_id", "postage_total_usd",
     "status", "status_last_checked", "delivered_at", "latest_event"}

\* service_type: "usps_ground_advantage", label_id: "", postage_total_usd: null
DefaultService == "usps_ground_advantage"

\* request_id: `mail_${Date.now()}` in every record but that of a mailed
\* letter, where it is lobJson.id.
requestId(status, letter) ==
    IF status = "Created" THEN <<"letter", letter>> ELSE <<"mail", now>>

AuditRecord(by, status, event, http, b, weight, tracking, letter) ==
    [by |-> by, keys |-> MailLabelKeys, request_id |-> requestId(status, letter),
     status |-> status, latest_event |-> event, http |-> http,
     customer_name |-> OrEmpty(requireField(b, "name")),
     weight_oz |-> weight, tracking_number |-> tracking, lob_letter_id |-> letter,
     service_type |-> DefaultService, label_id |-> "", postage_total_usd |-> 0]

\* labelJson?.service_type || "usps_ground_advantage", labelJson?.label_id || "",
\* labelJson?.shipment_cost?.total_amount ?? null
withLabelFields(rec, r) ==
    [rec EXCEPT !.service_type = IF r.service_type # "" THEN r.service_type ELSE DefaultService,
                !.label_id = r.label_id,
                !.postage_total_usd = r.postage]

missingPayload(b) ==
    AuditRecord("mail-label", "Exception", "Missing required fields", 0, b,
                normalizeWeightOz(b), "", "")

\* Mutant: the last event does not name the status of the label call.
labelFailPayloadNoStatus(b, status) ==
    AuditRecord("mail-label", "Exception", "Label creation failed (Endicia). HTTP", 0, b,
                normalizeWeightOz(b), "", "")

labelFailPayload(b, status) ==
    AuditRecord("mail-label", "Exception", "Label creation failed (Endicia). HTTP", status, b,
                normalizeWeightOz(b), "", "")

lobFailPayload(b, status, tracking) ==
    withLabelFields(
        AuditRecord("mail-label", "Exception", "Lob letter creation failed. HTTP", status, b,
                    normalizeWeightOz(b), tracking, ""),
        labelResp)

sheetsPayload(b, tracking, id) ==
    withLabelFields(
        AuditRecord("mail-label", "Created",
                    IF tracking # "" THEN "Return label created; physical packet mailed."
                    ELSE "Return label created (no tracking number returned); physical packet mailed.",
                    0, b, normalizeWeightOz(b), tracking, id),
        labelResp)

\* Mutant: the catch block records the crash as a label failure.
crashPayloadAsLabelFailure(e) ==
    AuditRecord("mail-label", "Exception", "Label creation failed (Endicia). HTTP", 0, NoBody,
                0, "", "")

crashPayload(e) ==
    AuditRecord("mail-label", "Exception", "Unhandled error", 0, NoBody, 0, "", "")

\* Mutant: the catch block answers without posting a record.
CrashUnlogged(e) ==
    /\ pc' = "audit"
    /\ pending' = Res(500, FALSE, e)
    /\ UNCHANGED <<audits, calls>>

\* The catch block: the crash record goes to postToSheets, then sendJson 500.
Crash(e) ==
    /\ pc' = "audit"
    /\ pending' = Res(500, FALSE, e)
    /\ audits' = postToSheets(audits, crashPayload(e))
    /\ calls' = sheetsFetch(calls)

-----------------------------------------------------------------------------
(* create-label.js: helpers *)

\* if (!CLIENT_ID || !CLIENT_SECRET || !REFRESH_TOKEN)
seraConfigMissing == ~env.sera

\* const skipLogging = body?.skipLogging === true;
skipLogging(b) == b.skipLogging

\* Mutant: a 2xx answer counts as a token whether or not it has access_token.
getAccessTokenThrowsStatusOnly(o) == o \in {"unreachable", "non2xx"}

\* getAccessToken throws: the fetch rejects, or !resp.ok || !data?.access_token.
getAccessTokenThrows(o) == o \in {"unreachable", "non2xx", "noToken"}

\* required.filter((k) => !String(body[k] || "").trim()): body[k] || "" is ""
\* for 0 and for false as well.
clMissing(b) ==
    SelectSeq(Fields, LAMBDA k : b.f[k] \in {"absent", "null", "blank", "zero", "false"})

\* (body.x || "").trim() of a number other than 0 or of true: trim is not a
\* function.
customerFromAddressThrows(b) ==
    \E k \in {"name", "address1", "city", "state", "zip", "phone"} :
        b.f[k] \in {"number", "true"}

\* customerFromAddress(body) and the test of lines 139-145.
fromAddressIncomplete(b) ==
    \E k \in {"name", "address1", "city", "state", "zip"} : b.f[k] # "text"

\* Mutant: any positive weightOz is accepted, as mail-label does.
clNormalizeWeightOzAnyPositive(b) ==
    IF b.weightOz > 0 THEN b.weightOz
    ELSE IF b.weightLbs \in {1, 2} THEN b.weightLbs * 16
    ELSE 32

\* Mutant: weightLbs is looked at before weightOz.
clNormalizeWeightOzLbsFirst(b) ==
    IF b.weightLbs \in {1, 2} THEN b.weightLbs * 16
    ELSE IF b.weightOz \in {16, 32} THEN b.weightOz
    ELSE 32

clNormalizeWeightOz(b) ==
    IF b.weightOz \in {16, 32} THEN b.weightOz
    ELSE IF b.weightLbs \in {1, 2} THEN b.weightLbs * 16
    ELSE 32

\* crypto.randomUUID(): a value no earlier call has returned.
uuidv4(n) == n + 1

\* Mutant: the key is derived from what is asked for.
idempotencyKeyFromContent(n, content) == content.weight

\* const idempotencyKey = uuidv4();
idempotencyKey(n, content) == uuidv4(n)

\* What the carrier is asked for: the customer address and the weight.
labelContent(b, weight) == [from |-> OrEmpty(requireField(b, "name")), weight |-> weight]

\* The keys of the record of lines 221-246.
CreateLabelKeys ==
    {"request_id", "source", "created_at_iso",
     "customer_name", "customer_email", "customer_phone",
     "from_address1", "from_address2", "from_city", "from_state", "from_zip",
     "device_type", "device_serial", "return_reason", "weight_oz",
     "service_type", "tracking_number", "label_id", "postage_total_usd",
     "status"}

\* The record has no latest_event and no lob_letter_id; a reader finds nothing
\* there, written "" as in Res.  c is the handler's locals once the carrier
\* has answered.
clSheetsPayload(b, c) ==
    [by |-> "create-label", keys |-> CreateLabelKeys,
     request_id |-> <<"key", c.idempotencyKey>>,
     status |-> "Created", latest_event |-> "", http |-> 0,
     customer_name |-> OrEmpty(requireField(b, "name")),
     weight_oz |-> c.weightOz, tracking_number |-> c.trackingNumber, lob_letter_id |-> "",
     service_type |-> IF c.service_type # "" THEN c.service_type ELSE DefaultService,
     label_id |-> c.label_id, postage_total_usd |-> c.postage]

TokenOutcomes == {"ok", "non2xx", "noToken", "unreachable"}

LBL == "lbl_1"          \* a label id of the carrier

\* service_type, label_id and shipment_cost.total_amount of the carrier's
\* answer: all three given, or none of them.
NoMeta == [service_type |-> "", label_id |-> "", postage |-> 0]
CarrierMeta == [service_type |-> DefaultService, label_id |-> LBL, postage |-> 5]

\* What the carrier answers to POST /v1/labels.
CarrierOutcomes ==
    {[kind |-> "unreachable", status |-> 0, tracking |-> "", inline |-> "none", href |-> FALSE,
      meta |-> NoMeta]}
    \cup {[kind |-> "non2xx", status |-> st, tracking |-> "", inline |-> "none", href |-> FALSE,
            meta |-> NoMeta] : st \in {400, 500}}
    \cup {[kind |-> "notJson", status |-> 200, tracking |-> "", inline |-> "none", href |-> FALSE,
            meta |-> NoMeta]}
    \cup {[kind |-> "json", status |-> 200, tracking |-> t, inline |-> d, href |-> h, meta |-> m] :
            t \in {"", TRK}, d \in {"none", "pdf", "junk"}, h \in BOOLEAN,
            m \in {NoMeta, CarrierMeta}}

\* What the label document URL answers.
DocOutcomes == {"pdf", "junk", "empty", "non2xx", "unreachable"}

\* await fileResp.arrayBuffer(): the bytes of the answer, whatever its status.
docBytes(o) == IF o = "non2xx" THEN "junk" ELSE o

\* What the mail provider answers to POST /v1/letters.
\* A letter that has an id also has a status ("processed").
LobOutcomes ==
    {[kind |-> "unreachable", ok |-> FALSE, status |-> 0, id |-> "", lstatus |-> ""]}
    \cup {[kind |-> "answer", ok |-> FALSE, status |-> st, id |-> "", lstatus |-> ""] :
            st \in {422, 500}}
    \cup {[kind |-> "answer", ok |-> TRUE, status |-> 200, id |-> i,
            lstatus |-> IF i = "" THEN "" ELSE "processed"] : i \in {"", LTR}}

-----------------------------------------------------------------------------
(* Number arithmetic of buildInstructionsPlusLabelPdf, lines 100-116.       *)
(* A length is a row of binary digits, WholeBits of them before the point   *)
(* and FractionBits after it, the most significant first; every operation   *)
(* rounds its exact result to Significand digits, ties to even, as the      *)
(* operations on JavaScript numbers do.  The rows hold every number from    *)
(* 1/4 up to 2^WholeBits that the code can compute.                         *)

LETTER_W == 612
LETTER_H == 792
targetW == 420
targetH == 600

Significand == 53
Width == WholeBits + FractionBits

\* The row with digit f[i] in place i.
Row(f) == SubSeq(f, 1, Width)

Zeros(n) == SubSeq([i \in 1..n |-> 0], 1, n)

\* The whole number n.
FromInt(n) ==
    Row([i \in 1..Width |-> IF i <= WholeBits THEN (n \div 2^(WholeBits - i)) % 2 ELSE 0])

\* 2^n modulo b
RECURSIVE PowerMod(_, _)
PowerMod(n, b) ==
    IF n = 0 THEN 1 % b
    ELSE LET h == PowerMod(n \div 2, b)
         IN (h * h * (IF n % 2 = 1 THEN 2 ELSE 1)) % b

\* What is left of r / b after n binary digits, 0 <= r < b: r * 2^n modulo b.
Remainder(r, b, n) == (r * PowerMod(n, b)) % b

\* n binary digits of r / b after the point, 0 <= r < b.
Digits(r, b, n) ==
    SubSeq([i \in 1..n |-> IF 2 * Remainder(r, b, i - 1) >= b THEN 1 ELSE 0], 1, n)

\* The row with one more unit in place k, carried upwards.
AddUnit(bits, k) ==
    LET free == {j \in 1..k : bits[j] = 0}
    IN IF free = {} THEN bits
       ELSE LET t == CHOOSE j \in free : \A m \in free : m <= j
            IN Row([i \in 1..Width |->
                        IF i < t THEN bits[i] ELSE IF i = t THEN 1 ELSE IF i <= k THEN 0
                        ELSE bits[i]])

\* The exact row bits (sticky: more non-zero digits follow it) rounded to
\* Significand digits, ties to even.
Round(bits, sticky) ==
    LET ones == {i \in 1..Len(bits) : bits[i] = 1}
    IN IF ones = {} THEN Zeros(Width)
       ELSE LET lead == CHOOSE i \in ones : \A m \in ones : i <= m
                reach == lead + Significand - 1
                last == IF reach > Width THEN Width ELSE reach
                guard == IF last + 1 <= Len(bits) THEN bits[last + 1] ELSE 0
                tail == sticky \/ \E i \in (last + 2)..Len(bits) : bits[i] = 1
                kept == Row([i \in 1..Width |-> IF i <= last THEN bits[i] ELSE 0])
            IN IF guard = 1 /\ (tail \/ bits[last] = 1) THEN AddUnit(kept, last) ELSE kept

\* a / b for whole numbers a, b > 0.
Divide(a, b) ==
    Round(SubSeq(FromInt(a \div b), 1, WholeBits) \o Digits(a % b, b, FractionBits + 2),
          Remainder(a % b, b, FractionBits + 2) # 0)

Less(p, q) == \E i \in 1..Width : p[i] < q[i] /\ \A j \in 1..(i - 1) : p[j] = q[j]

Leq(p, q) == p = q \/ Less(p, q)

MathMin(p, q) == IF Leq(p, q) THEN p ELSE q

\* p + q exactly: place i gets a carry when some place below it makes one and
\* every place between passes it on.
Plus(p, q) ==
    LET carry(i) == IF \E m \in (i + 1)..Width :
                            /\ p[m] + q[m] = 2
                            /\ \A j \in (i + 1)..(m - 1) : p[j] + q[j] = 1
                    THEN 1 ELSE 0
    IN Row([i \in 1..Width |-> (p[i] + q[i] + carry(i)) % 2])

\* 2 * p exactly.
Twice(p) == Row([i \in 1..Width |-> IF i < Width THEN p[i + 1] ELSE 0])

\* k * p exactly, for a whole number k.
RECURSIVE TimesDigits(_, _)
TimesDigits(k, p) ==
    IF k = 0 THEN Zeros(Width)
    ELSE LET rest == Twice(TimesDigits(k \div 2, p))
         IN IF k % 2 = 1 THEN Plus(p, rest) ELSE rest

\* k * p for a whole number k.
Times(k, p) == Round(TimesDigits(k, p), FALSE)

\* p - q exactly, p >= q: place i lends one when what is below it in p is less
\* than what is below it in q.
MinusDigits(p, q) ==
    LET borrow(i) == IF \E m \in (i + 1)..Width :
                            /\ p[m] < q[m]
                            /\ \A j \in (i + 1)..(m - 1) : p[j] = q[j]
                     THEN 1 ELSE 0
    IN Row([i \in 1..Width |-> (p[i] - q[i] - borrow(i)) % 2])

\* A length with its sign.
Signed(neg, p) == [neg |-> neg, mag |-> p]

\* p - q
Minus(p, q) ==
    IF Leq(q, p) THEN Signed(FALSE, Round(MinusDigits(p, q), FALSE))
    ELSE Signed(TRUE, Round(MinusDigits(q, p), FALSE))

\* s / 2
Half(s) == Signed(s.neg, Round(<<0>> \o s.mag, FALSE))

\* (whole - p) / 2
Centre(whole, p) == Half(Minus(FromInt(whole), p))

-----------------------------------------------------------------------------
(* The initial state and the arrival of a request *)

Envs == [mail : BOOLEAN, lob : BOOLEAN, hook : BOOLEAN, sera : BOOLEAN]

NoReq == [method |-> "", auth |-> "absent"]

\* The locals of an invocation that has not started.
IdleFrame ==
    [target |-> "none", req |-> NoReq, pc |-> "idle", body |-> NoBody,
     labelResp |-> NoLabelResp, trackingNumber |-> "", lobResp |-> NoLobResp,
     pending |-> NoRes, res |-> NoRes, cpc |-> "idle", cbody |-> NoBody, cl |-> NoCl,
     cres |-> NoRes, calls |-> <<>>, audits |-> <<>>]

\* What the token endpoint answers the refresh test: nothing, or a status
\* with a body that is no JSON, JSON without access_token, or JSON with one.
RefreshOutcomes ==
    {[kind |-> "unreachable", status |-> 0, data |-> "none"]} \cup
    {[kind |-> "answer", status |-> st, data |-> d] :
        st \in {200, 401}, d \in {"null", "noToken", "token"}}

NoOutcome == [kind |-> "none", status |-> 0, data |-> "none"]

\* res.status(...).json(...) of the refresh test; data is the token
\* endpoint's body when the response echoes it.
RefreshRes(status, ok, text, httpStatus, data) ==
    [status |-> status, ok |-> ok, text |-> text, httpStatus |-> httpStatus, data |-> data]

NoRefreshRes == RefreshRes(0, FALSE, "", 0, "none")

NoRefresh == [pc |-> "idle", resp |-> NoOutcome, res |-> NoRefreshRes]

Idle ==
    /\ parked = [i \in 1..MaxConcurrent |-> IdleFrame] /\ cur = 1
    /\ now = 0
    /\ refresh = NoRefresh
    /\ nreq = 0 /\ target = "none" /\ req = NoReq
    /\ pc = "idle" /\ body = NoBody /\ labelResp = NoLabelResp /\ trackingNumber = ""
    /\ lobResp = NoLobResp /\ pending = NoRes /\ res = NoRes
    /\ cpc = "idle" /\ cbody = NoBody /\ cl = NoCl /\ cres = NoRes
    /\ calls = <<>> /\ audits = <<>>
    /\ issued = <<>> /\ uuid = 0

NoLayout == [done |-> FALSE, xScale |-> Zeros(Width), yScale |-> Zeros(Width),
             drawW |-> Zeros(Width), drawH |-> Zeros(Width),
             x |-> Signed(FALSE, Zeros(Width)), y |-> Signed(FALSE, Zeros(Width))]

NoInstructions == [exists |-> FALSE, pages |-> 0]

Init ==
    /\ env \in Envs
    /\ Idle
    /\ page = <<0, 0>>
    /\ instr = NoInstructions
    /\ out = <<>>
    /\ layout = NoLayout

Quiet ==
    /\ pc \in {"idle", "done"} /\ cpc \in {"idle", "done"}
    /\ refresh.pc \in {"idle", "done"}

\* A client calls /api/mail-label or /api/create-label.
Receive(t, m, a) ==
    /\ Quiet
    /\ nreq < MaxRequests
    /\ nreq' = nreq + 1
    /\ target' = t
    /\ req' = [method |-> m, auth |-> a]
    /\ pc' = CASE t = "mail-label" -> "start"
               [] t = "mail-label-code" -> "ac_start"
               [] OTHER -> "idle"
    /\ cpc' = IF t = "create-label" THEN "start" ELSE "idle"
    /\ body' = NoBody /\ labelResp' = NoLabelResp /\ trackingNumber' = ""
    /\ lobResp' = NoLobResp /\ pending' = NoRes /\ res' = NoRes
    /\ cbody' = NoBody /\ cl' = NoCl /\ cres' = NoRes
    /\ calls' = <<>> /\ audits' = <<>>
    /\ refresh' = [NoRefresh EXCEPT !.pc = IF t = "token-test" THEN "start" ELSE "idle"]
    /\ UNCHANGED <<env, issued, uuid, layoutVars, loopVars>>

-----------------------------------------------------------------------------
(* mail-label.js: the handler, lines 124-418 *)

\* Lines 126-210: from the method test to the first await.  The body is read
\* only once the credential gate has let the request through.
MLEntry ==
    /\ pc = "start"
    /\ IF req.method # "POST" THEN
            /\ res' = Res(405, FALSE, "Method Not Allowed")
            /\ pc' = "done"
            /\ UNCHANGED <<body, pending, calls, audits, cpc, cbody>>
       ELSE IF mailConfigMissing THEN
            /\ res' = Res(500, FALSE, "Missing MAIL_USER/MAIL_PASS env vars")
            /\ pc' = "done"
            /\ UNCHANGED <<body, pending, calls, audits, cpc, cbody>>
       ELSE IF credsRejected(parseBasicAuth(req.auth)) THEN
            /\ res' = Res(401, FALSE, "Unauthorized")
            /\ pc' = "done"
            /\ UNCHANGED <<body, pending, calls, audits, cpc, cbody>>
       ELSE \E b \in Bodies :
            IF b.kind = "malformed" THEN
                \* JSON.parse throws
                /\ Crash("SyntaxError")
                /\ UNCHANGED <<body, res, cpc, cbody>>
            ELSE IF lobKeyMissing THEN
                /\ body' = b
                /\ res' = Res(500, FALSE, "Missing LOB_API_KEY env var")
                /\ pc' = "done"
                /\ UNCHANGED <<pending, calls, audits, cpc, cbody>>
            ELSE IF missingFields(b) # <<>> THEN
                IF b.kind = "null" THEN
                    \* body.email of null throws
                    /\ body' = b
                    /\ Crash("TypeError")
                    /\ UNCHANGED <<res, cpc, cbody>>
                ELSE
                    /\ body' = b
                    /\ audits' = postToSheets(audits, missingPayload(b))
                    /\ calls' = sheetsFetch(calls)
                    /\ pending' = [Res(400, FALSE, "Missing required fields") EXCEPT
                                      !.fields = missingFields(b)]
                    /\ pc' = "audit"
                    /\ UNCHANGED <<res, cpc, cbody>>
            ELSE
                \* fetch(`${baseUrl}/api/create-label`, ...) with JSON.stringify(body)
                /\ body' = b
                /\ calls' = Append(calls, "create-label")
                /\ cpc' = "start"
                /\ cbody' = b
                /\ pc' = "label"
                /\ UNCHANGED <<pending, res, audits>>
    /\ UNCHANGED <<env, nreq, target, req, labelResp, trackingNumber, lobResp,
                   cl, cres, issued, uuid, layoutVars, loopVars, refresh>>

\* Line 206: the fetch of create-label rejects; the endpoint was never run.
MLLabelUnreachable ==
    /\ pc = "label" /\ cpc = "start"
    /\ cpc' = "idle"
    /\ cbody' = NoBody
    /\ Crash("fetch failed")
    /\ UNCHANGED <<env, nreq, target, req, body, labelResp, trackingNumber, lobResp,
                   res, cl, cres, issued, uuid, layoutVars, loopVars, refresh>>

\* Mutant: only the HTTP status of the label call is looked at.
labelFailedStatusOnly(r) == ~r.ok

\* Mutant: a label without a tracking number counts as a failure.
labelFailedWithoutTracking(r) ==
    ~r.ok \/ ~r.jsonOk \/ r.labelData \in {"none", "empty"} \/ r.trackingNumber = ""

\* if (!labelResp.ok || !labelJson?.ok || !labelJson?.labelData)
labelFailed(r) == ~r.ok \/ ~r.jsonOk \/ r.labelData \in {"none", "empty"}

\* Lines 212-263: create-label has answered.
MLLabelDone ==
    /\ pc = "label" /\ cpc = "done"
    /\ LET r == [ok |-> cres.status = 200, status |-> cres.status, json |-> TRUE,
                 jsonOk |-> cres.ok, labelData |-> cres.labelData,
                 trackingNumber |-> cres.trackingNumber,
                 service_type |-> cres.service_type, label_id |-> cres.label_id,
                 postage |-> cres.postage]
       IN /\ labelResp' = r
          /\ IF labelFailed(r) THEN
                /\ audits' = postToSheets(audits, labelFailPayload(body, r.status))
                /\ calls' = sheetsFetch(calls)
                /\ pending' = [Res(400, FALSE, "Label creation failed") EXCEPT
                                  !.httpStatus = r.status]
                /\ pc' = "audit"
                /\ UNCHANGED trackingNumber
             ELSE
                /\ trackingNumber' = r.trackingNumber
                /\ pc' = "compose"
                /\ UNCHANGED <<audits, calls, pending>>
    /\ cpc' = "idle"
    /\ UNCHANGED <<env, nreq, target, req, body, lobResp, res, cbody, cl, cres,
                   issued, uuid, layoutVars, loopVars, refresh>>

\* Lines 261-295: buildInstructionsPlusLabelPdf, then the letter is posted.
\* embedPdf throws on bytes that are no PDF.
MLCompose ==
    /\ pc = "compose"
    /\ IF labelResp.labelData # "pdf" THEN
            Crash("Failed to parse PDF document")
       ELSE /\ calls' = Append(calls, "lob")
            /\ pc' = "lob"
            /\ UNCHANGED <<pending, audits>>
    /\ UNCHANGED <<env, nreq, target, req, body, labelResp, trackingNumber, lobResp,
                   res, clVars, issued, uuid, layoutVars, loopVars, refresh>>

\* Mutant: only the HTTP status of the mail provider is looked at.
lobFailedStatusOnly(r) == ~r.ok

\* if (!lobResp.ok || !lobJson?.id)
\* Mutant: the mail provider's answer is never taken for a failure.
lobFailedNever(r) == FALSE

lobFailed(r) == ~r.ok \/ r.id = ""

\* Lines 291-377: the mail provider has answered, or the fetch has rejected.
MLLobDone ==
    /\ pc = "lob"
    /\ \E r \in LobOutcomes :
        IF r.kind = "unreachable" THEN
            /\ Crash("fetch failed")
            /\ UNCHANGED lobResp
        ELSE
            /\ lobResp' = [ok |-> r.ok, status |-> r.status, id |-> r.id, lstatus |-> r.lstatus]
            /\ calls' = sheetsFetch(calls)
            /\ pc' = "audit"
            /\ IF lobFailed(r) THEN
                    /\ audits' = postToSheets(audits, lobFailPayload(body, r.status, trackingNumber))
                    /\ pending' = [Res(400, FALSE, "Lob letter creation failed") EXCEPT
                                      !.httpStatus = r.status]
               ELSE /\ audits' = postToSheets(audits, sheetsPayload(body, trackingNumber, r.id))
                    /\ pending' = [Res(200, TRUE, "") EXCEPT
                                      !.trackingNumber = trackingNumber, !.letterId = r.id,
                                      !.lobStatus = r.lstatus]
    /\ UNCHANGED <<env, nreq, target, req, body, labelResp, trackingNumber,
                   res, clVars, issued, uuid, layoutVars, loopVars, refresh>>

\* Mutant: a failed audit post fails the request.
MLRespondAuditDecides ==
    /\ pc = "audit"
    /\ \E o \in (IF env.hook THEN SheetsOutcomes ELSE {"skipped"}) :
        res' = IF o \in {"rejected", "error"} THEN Res(500, FALSE, "audit failed")
               ELSE IF pending.ok THEN [pending EXCEPT !.sheetsLogged = o] ELSE pending
    /\ pc' = "done"
    /\ pending' = NoRes
    /\ UNCHANGED <<env, nreq, target, req, body, labelResp, trackingNumber, lobResp,
                   clVars, calls, audits, issued, uuid, layoutVars, loopVars, refresh>>

\* Mutant: after the audit record of a failure the handler returns without
\* sending its response.
MLRespondFailureUnsent ==
    /\ pc = "audit"
    /\ \E o \in (IF env.hook THEN SheetsOutcomes ELSE {"skipped"}) :
        res' = IF pending.ok THEN [pending EXCEPT !.sheetsLogged = o] ELSE res
    /\ pc' = IF pending.ok THEN "done" ELSE "returned"
    /\ pending' = NoRes
    /\ UNCHANGED <<env, nreq, target, req, body, labelResp, trackingNumber, lobResp,
                   clVars, calls, audits, issued, uuid, layoutVars, loopVars, refresh>>

\* The awaited postToSheets resolves (it never rejects) and sendJson runs.
MLRespond ==
    /\ pc = "audit"
    /\ \E o \in (IF env.hook THEN SheetsOutcomes ELSE {"skipped"}) :
        res' = IF pending.ok THEN [pending EXCEPT !.sheetsLogged = o] ELSE pending
    /\ pc' = "done"
    /\ pending' = NoRes
    /\ UNCHANGED <<env, nreq, target, req, body, labelResp, trackingNumber, lobResp,
                   clVars, calls, audits, issued, uuid, layoutVars, loopVars, refresh>>

-----------------------------------------------------------------------------
(* create-label.js: the handler, lines 114-289 *)

\* Mutant: every response is sent with status 200.
CLSendAlways200(r) ==
    /\ cres' = [r EXCEPT !.status = 200]
    /\ cpc' = "done"

\* json(res, status, obj) of the handler, and its return.
CLSend(r) ==
    /\ cres' = r
    /\ cpc' = "done"

\* Mutant: the document URL is preferred to the inline data.
CLFinishHrefFirst(c) ==
    IF c.href THEN
        /\ calls' = Append(calls, "document")
        /\ cpc' = "document"
        /\ UNCHANGED cres
    ELSE IF c.maybeBase64 # "none" THEN
        /\ CLSend([Res(200, TRUE, "") EXCEPT !.trackingNumber = c.trackingNumber,
                      !.labelData = c.maybeBase64, !.sheetsLogged = c.sheetsLogged])
        /\ UNCHANGED calls
    ELSE
        /\ CLSend([Res(500, FALSE, "Label created but no label data returned") EXCEPT
                      !.sheetsLogged = c.sheetsLogged])
        /\ UNCHANGED calls

\* Lines 251-285, up to the fetch of the label document.
CLFinish(c) ==
    IF c.maybeBase64 # "none" THEN
        /\ CLSend([Res(200, TRUE, "") EXCEPT !.trackingNumber = c.trackingNumber,
                      !.labelData = c.maybeBase64, !.sheetsLogged = c.sheetsLogged])
        /\ UNCHANGED calls
    ELSE IF c.href THEN
        /\ calls' = Append(calls, "document")
        /\ cpc' = "document"
        /\ UNCHANGED cres
    ELSE
        /\ CLSend([Res(500, FALSE, "Label created but no label data returned") EXCEPT
                      !.sheetsLogged = c.sheetsLogged])
        /\ UNCHANGED calls

\* Mutant: neither the required fields nor the from address are tested.
CLEntryUnvalidated ==
    /\ cpc = "start"
    /\ IF target = "create-label" /\ req.method # "POST" THEN
            /\ CLSend(Res(405, FALSE, "Method Not Allowed"))
            /\ UNCHANGED <<cbody, cl, calls>>
       ELSE IF seraConfigMissing THEN
            /\ CLSend(Res(500, FALSE, "Missing env vars"))
            /\ UNCHANGED <<cbody, cl, calls>>
       ELSE \E b \in (IF target = "create-label" THEN Bodies ELSE {cbody}) :
            IF b.kind # "object" THEN
                /\ CLSend(Res(500, FALSE, "SyntaxError"))
                /\ UNCHANGED <<cbody, cl, calls>>
            ELSE
                /\ cbody' = b
                /\ cl' = [cl EXCEPT !.skipLogging = skipLogging(b),
                                    !.weightOz = clNormalizeWeightOz(b)]
                /\ calls' = Append(calls, "token")
                /\ cpc' = "token"
                /\ UNCHANGED cres
    /\ UNCHANGED <<env, nreq, target, req, mlVars, audits, issued, uuid, layoutVars, loopVars, refresh>>

\* Lines 116-153: from the method test to the token request.
CLEntry ==
    /\ cpc = "start"
    /\ IF target = "create-label" /\ req.method # "POST" THEN
            /\ CLSend(Res(405, FALSE, "Method Not Allowed"))
            /\ UNCHANGED <<cbody, cl, calls>>
       ELSE IF seraConfigMissing THEN
            /\ CLSend(Res(500, FALSE, "Missing env vars"))
            /\ UNCHANGED <<cbody, cl, calls>>
       ELSE \E b \in (IF target = "create-label" THEN Bodies ELSE {cbody}) :
            IF b.kind = "malformed" THEN
                /\ CLSend(Res(500, FALSE, "SyntaxError"))
                /\ UNCHANGED <<cbody, cl, calls>>
            ELSE IF b.kind = "null" THEN
                \* body[k] of null throws
                /\ cbody' = b
                /\ CLSend(Res(500, FALSE, "TypeError"))
                /\ UNCHANGED <<cl, calls>>
            ELSE IF clMissing(b) # <<>> THEN
                /\ cbody' = b
                /\ CLSend([Res(400, FALSE, "Missing required fields") EXCEPT
                              !.fields = clMissing(b)])
                /\ UNCHANGED <<cl, calls>>
            ELSE IF customerFromAddressThrows(b) THEN
                /\ cbody' = b
                /\ CLSend(Res(500, FALSE, "TypeError"))
                /\ UNCHANGED <<cl, calls>>
            ELSE IF fromAddressIncomplete(b) THEN
                /\ cbody' = b
                /\ CLSend(Res(400, FALSE, "From address incomplete"))
                /\ UNCHANGED <<cl, calls>>
            ELSE
                /\ cbody' = b
                /\ cl' = [cl EXCEPT !.skipLogging = skipLogging(b),
                                    !.weightOz = clNormalizeWeightOz(b)]
                /\ calls' = Append(calls, "token")
                /\ cpc' = "token"
                /\ UNCHANGED cres
    /\ UNCHANGED <<env, nreq, target, req, mlVars, audits, issued, uuid, layoutVars, loopVars, refresh>>

\* getAccessToken, lines 56-76, and lines 155-201: the carrier is asked for a label.
CLToken ==
    /\ cpc = "token"
    /\ \E o \in TokenOutcomes :
        IF getAccessTokenThrows(o) THEN
            /\ CLSend(Res(500, FALSE, IF o = "unreachable" THEN "fetch failed"
                                      ELSE "Token refresh failed"))
            /\ cl' = [cl EXCEPT !.token = o]
            /\ UNCHANGED <<calls, issued, uuid>>
        ELSE
            LET key == idempotencyKey(uuid, labelContent(cbody, cl.weightOz))
            IN /\ cl' = [cl EXCEPT !.accessToken = TRUE, !.idempotencyKey = key, !.token = o]
               /\ uuid' = uuid + 1
               /\ issued' = Append(issued, [key |-> key,
                                            content |-> labelContent(cbody, cl.weightOz)])
               /\ calls' = Append(calls, "carrier")
               /\ cpc' = "carrier"
               /\ UNCHANGED cres
    /\ UNCHANGED <<env, nreq, target, req, mlVars, cbody, audits, layoutVars, loopVars, refresh>>

\* Lines 203-249: the carrier has answered, or the fetch has rejected.
CLCarrier ==
    /\ cpc = "carrier"
    /\ \E r \in CarrierOutcomes :
        CASE r.kind = "unreachable" ->
                /\ CLSend(Res(500, FALSE, "fetch failed"))
                /\ cl' = [cl EXCEPT !.carrier = r.kind]
                /\ UNCHANGED <<calls, audits>>
          [] r.kind = "non2xx" ->
                /\ CLSend([Res(r.status, FALSE, "Label creation failed") EXCEPT
                              !.httpStatus = r.status])
                /\ cl' = [cl EXCEPT !.carrier = r.kind]
                /\ UNCHANGED <<calls, audits>>
          [] r.kind = "notJson" ->
                \* labelData is null: labelData.tracking_number throws
                /\ CLSend(Res(500, FALSE, "TypeError"))
                /\ cl' = [cl EXCEPT !.carrier = r.kind]
                /\ UNCHANGED <<calls, audits>>
          [] OTHER ->
                LET c == [cl EXCEPT !.carrier = r.kind, !.trackingNumber = r.tracking,
                                    !.maybeBase64 = r.inline, !.href = r.href,
                                    !.service_type = r.meta.service_type,
                                    !.label_id = r.meta.label_id,
                                    !.postage = r.meta.postage]
                IN IF ~c.skipLogging THEN
                        /\ cl' = c
                        /\ audits' = postToSheets(audits, clSheetsPayload(cbody, c))
                        /\ calls' = sheetsFetch(calls)
                        /\ cpc' = "sheets"
                        /\ UNCHANGED cres
                   ELSE /\ cl' = c
                        /\ CLFinish(c)
                        /\ UNCHANGED audits
    /\ UNCHANGED <<env, nreq, target, req, mlVars, cbody, issued, uuid, layoutVars, loopVars, refresh>>

\* Line 248: the awaited postToSheets resolves.
CLSheets ==
    /\ cpc = "sheets"
    /\ \E o \in (IF env.hook THEN SheetsOutcomes ELSE {"skipped"}) :
        LET c == [cl EXCEPT !.sheetsLogged = o]
        IN /\ cl' = c
           /\ CLFinish(c)
    /\ UNCHANGED <<env, nreq, target, req, mlVars, cbody, audits, issued, uuid, layoutVars, loopVars, refresh>>

\* Lines 264-277: the label document has been fetched; fileResp.ok is not tested.
CLDocument ==
    /\ cpc = "document"
    /\ \E o \in DocOutcomes :
        /\ cl' = [cl EXCEPT !.doc = o]
        /\ IF o = "unreachable" THEN
                CLSend(Res(500, FALSE, "fetch failed"))
           ELSE
                CLSend([Res(200, TRUE, "") EXCEPT !.trackingNumber = cl.trackingNumber,
                          !.labelData = docBytes(o),
                          !.sheetsLogged = cl.sheetsLogged])
    /\ UNCHANGED <<env, nreq, target, req, mlVars, cbody, calls, audits, issued, uuid,
                   layoutVars, loopVars, refresh>>

-----------------------------------------------------------------------------
(* The access-code draft of the mail-label handler: part_001, lines 67-180. *)
(* It posts no audit record on any path.                                   *)

\* The accessCode field of the body, as requireField returns it.
CodeVals == {"absent", "blank", "wrong", "valid"}

\* if (accessCode !== "072288")
codeRejected(code) == code # "valid"

\* if (!name || !address1 || !city || !state || !zip)
acMissing(b) ==
    \E k \in {"name", "address1", "city", "state", "zip"} : requireField(b, k) = NullField

\* Lines 69-107: from the method test to the fetch of create-label.
ACEntry ==
    /\ pc = "ac_start"
    /\ IF req.method # "POST" THEN
            /\ res' = Res(405, FALSE, "Method Not Allowed")
            /\ pc' = "done"
            /\ UNCHANGED <<body, calls, cpc, cbody>>
       ELSE \E b \in Bodies :
            IF b.kind = "malformed" THEN
                /\ res' = Res(500, FALSE, "SyntaxError")
                /\ pc' = "done"
                /\ UNCHANGED <<body, calls, cpc, cbody>>
            ELSE IF codeRejected(IF b.kind = "object" THEN req.auth ELSE "absent") THEN
                /\ body' = b
                /\ res' = Res(403, FALSE, "Invalid access code")
                /\ pc' = "done"
                /\ UNCHANGED <<calls, cpc, cbody>>
            ELSE IF lobKeyMissing THEN
                /\ body' = b
                /\ res' = Res(500, FALSE, "Missing LOB_API_KEY env var")
                /\ pc' = "done"
                /\ UNCHANGED <<calls, cpc, cbody>>
            ELSE IF acMissing(b) THEN
                /\ body' = b
                /\ res' = [Res(400, FALSE, "Missing required fields") EXCEPT
                              !.fields = <<"name", "address1", "city", "state", "zip">>]
                /\ pc' = "done"
                /\ UNCHANGED <<calls, cpc, cbody>>
            ELSE
                /\ body' = b
                /\ calls' = Append(calls, "create-label")
                /\ cpc' = "start"
                /\ cbody' = b
                /\ pc' = "ac_label"
                /\ UNCHANGED res
    /\ UNCHANGED <<env, nreq, target, req, labelResp, trackingNumber, lobResp, pending,
                   cl, cres, audits, issued, uuid, layoutVars, loopVars, refresh>>

\* Line 102: the fetch of create-label rejects; lines 177-179 answer 500.
ACLabelUnreachable ==
    /\ pc = "ac_label" /\ cpc = "start"
    /\ cpc' = "idle"
    /\ cbody' = NoBody
    /\ res' = Res(500, FALSE, "fetch failed")
    /\ pc' = "done"
    /\ UNCHANGED <<env, nreq, target, req, body, labelResp, trackingNumber, lobResp,
                   pending, cl, cres, calls, audits, issued, uuid, layoutVars, loopVars, refresh>>

\* Lines 109-122: create-label has answered.
ACLabelDone ==
    /\ pc = "ac_label" /\ cpc = "done"
    /\ LET r == [ok |-> cres.status = 200, status |-> cres.status, json |-> TRUE,
                 jsonOk |-> cres.ok, labelData |-> cres.labelData,
                 trackingNumber |-> cres.trackingNumber,
                 service_type |-> cres.service_type, label_id |-> cres.label_id,
                 postage |-> cres.postage]
       IN /\ labelResp' = r
          /\ IF labelFailed(r) THEN
                /\ res' = Res(400, FALSE, "Label creation failed")
                /\ pc' = "done"
             ELSE
                /\ pc' = "ac_compose"
                /\ UNCHANGED res
    /\ cpc' = "idle"
    /\ UNCHANGED <<env, nreq, target, req, body, trackingNumber, lobResp, pending,
                   cbody, cl, cres, calls, audits, issued, uuid, layoutVars, loopVars, refresh>>

\* Lines 120-157: the document is composed and the letter is posted.
ACCompose ==
    /\ pc = "ac_compose"
    /\ IF labelResp.labelData # "pdf" THEN
            /\ res' = Res(500, FALSE, "Failed to parse PDF document")
            /\ pc' = "done"
            /\ UNCHANGED calls
       ELSE /\ calls' = Append(calls, "lob")
            /\ pc' = "ac_lob"
            /\ UNCHANGED res
    /\ UNCHANGED <<env, nreq, target, req, body, labelResp, trackingNumber, lobResp,
                   pending, clVars, audits, issued, uuid, layoutVars, loopVars, refresh>>

\* Lines 159-179: the mail provider has answered, or the fetch has rejected.
ACLobDone ==
    /\ pc = "ac_lob"
    /\ \E r \in LobOutcomes :
        IF r.kind = "unreachable" THEN
            /\ res' = Res(500, FALSE, "fetch failed")
            /\ UNCHANGED lobResp
        ELSE
            /\ lobResp' = [ok |-> r.ok, status |-> r.status, id |-> r.id, lstatus |-> r.lstatus]
            /\ res' = IF lobFailed(r)
                      THEN [Res(400, FALSE, "Lob letter creation failed") EXCEPT
                               !.httpStatus = r.status]
                      ELSE [Res(200, TRUE, "") EXCEPT
                               !.trackingNumber = labelResp.trackingNumber, !.letterId = r.id,
                               !.lobStatus = r.lstatus]
    /\ pc' = "done"
    /\ UNCHANGED <<env, nreq, target, req, body, labelResp, trackingNumber, pending,
                   clVars, calls, audits, issued, uuid, layoutVars, loopVars, refresh>>

-----------------------------------------------------------------------------
(* buildInstructionsPlusLabelPdf, mail-label.js lines 86-122. *)

\* Mutant: the label is fitted to the width alone.
labelScaleWidthOnly(w, h) == Divide(targetW, w)

\* Mutant: Math.max in the place of Math.min.
labelScaleMax(w, h) ==
    IF Leq(Divide(targetW, w), Divide(targetH, h)) THEN Divide(targetH, h)
    ELSE Divide(targetW, w)

\* const scale = Math.min(targetW / embeddedLabel.width, targetH / embeddedLabel.height);
labelScale(w, h) == MathMin(Divide(targetW, w), Divide(targetH, h))

labelLayout(w, h) ==
    LET scale == labelScale(w, h)
        drawW == Times(w, scale)
        drawH == Times(h, scale)
    IN [done |-> TRUE, xScale |-> scale, yScale |-> scale, drawW |-> drawW, drawH |-> drawH,
        x |-> Centre(LETTER_W, drawW), y |-> Centre(LETTER_H, drawH)]

\* Label pages in steps of a third of an inch, 72 units to the inch.
LabelPages == {<<24 * i, 24 * j>> : i, j \in 1..(3 * MaxInches)}

\* power-off-instructions.pdf: not there, or a document of some pages.
InstructionDocs ==
    {NoInstructions}
    \cup {[exists |-> TRUE, pages |-> n] : n \in 0..MaxInstrPages}

\* out.copyPages(instrPdf, instrPdf.getPageIndices()): the pages in index order.
copyPages(doc) ==
    [i \in 1..doc.pages |-> [from |-> "instructions", index |-> i, holds |-> "instructions",
                             size |-> <<LETTER_W, LETTER_H>>]]

\* out.addPage([LETTER_W, LETTER_H]), on which the label is drawn.
LabelSheet == [from |-> "new", index |-> 0, holds |-> "label", size |-> <<LETTER_W, LETTER_H>>]

\* Mutant: the label sheet is added before the instructions.
composedPagesLabelFirst(doc) ==
    <<LabelSheet>> \o (IF doc.exists THEN copyPages(doc) ELSE <<>>)

\* Lines 89-103: the pages of out, in the order of the addPage calls.
composedPages(doc) ==
    (IF doc.exists THEN copyPages(doc) ELSE <<>>) \o <<LabelSheet>>

\* The function reads nothing of the configuration.
InitLayout ==
    /\ env = [mail |-> TRUE, lob |-> TRUE, hook |-> TRUE, sera |-> TRUE]
    /\ Idle
    /\ page \in LabelPages
    /\ instr \in InstructionDocs
    /\ out = <<>>
    /\ layout = NoLayout

\* The document is composed and the label page is embedded and drawn.
DrawLabel ==
    /\ ~layout.done
    /\ out' = composedPages(instr)
    /\ layout' = labelLayout(page[1], page[2])
    /\ UNCHANGED <<env, nreq, target, req, mlVars, clVars, calls, audits, issued, uuid,
                   page, instr, loopVars, refresh>>

NextLayout == DrawLabel

SpecLayout == InitLayout /\ [][NextLayout]_vars

-----------------------------------------------------------------------------

ReceiveMail == \E m \in Methods, a \in AuthVals : Receive("mail-label", m, a)

ReceiveCode == \E m \in Methods, a \in CodeVals : Receive("mail-label-code", m, a)

ReceiveCreate == \E m \in Methods : Receive("create-label", m, "absent")

ReceiveTest == \E m \in Methods : Receive("token-test", m, "absent")

-----------------------------------------------------------------------------
(* The token refresh test endpoint, part_002 *)

\* if (!resp.ok || !data)
refreshFailed(o) == o.status \notin 200..299 \/ o.data = "null"

\* Lines 2-21: the form is built and the token endpoint is called, whatever
\* the method and the configuration.
RTEntry ==
    /\ refresh.pc = "start"
    /\ refresh' = [refresh EXCEPT !.pc = "token"]
    /\ calls' = Append(calls, "token")
    /\ UNCHANGED <<env, nreq, target, req, mlVars, clVars, audits, issued, uuid,
                   layoutVars, loopVars>>

\* Lines 23-42: the answer of the token endpoint is read and reported.
RTDone ==
    /\ refresh.pc = "token"
    /\ \E o \in RefreshOutcomes :
        refresh' =
            [pc |-> "done", resp |-> o,
             res |-> IF o.kind = "unreachable" THEN RefreshRes(500, FALSE, "TypeError", 0, "none")
                     ELSE IF refreshFailed(o) THEN
                        RefreshRes(400, FALSE, "Failed to refresh access token", o.status, o.data)
                     ELSE RefreshRes(200, TRUE, "Access token refresh worked", 0, "none")]
    /\ UNCHANGED <<env, nreq, target, req, mlVars, clVars, calls, audits, issued, uuid,
                   layoutVars, loopVars>>

\* No fetch of either handler is given a signal or a timeout (mail-label.js
\* lines 59, 206, 291; create-label.js lines 44, 59, 193, 264): a service that
\* accepts the call and never answers leaves the await pending for good.
NeverResolves ==
    /\ \/ /\ cpc \in {"token", "carrier", "document"} \/ (cpc = "sheets" /\ env.hook)
          /\ cpc' = "hung"
          /\ UNCHANGED <<pc, refresh>>
       \/ /\ pc \in {"lob", "ac_lob"} \/ (pc = "audit" /\ env.hook)
          /\ pc' = "hung"
          /\ UNCHANGED <<cpc, refresh>>
       \/ /\ refresh.pc = "token"
          /\ refresh' = [refresh EXCEPT !.pc = "hung"]
          /\ UNCHANGED <<pc, cpc>>
    /\ UNCHANGED <<env, nreq, target, req, body, labelResp, trackingNumber, lobResp,
                   pending, res, cbody, cl, cres, calls, audits, issued, uuid, layoutVars, loopVars>>

Next ==
    \/ ReceiveMail
    \/ ReceiveCode
    \/ ReceiveCreate
    \/ ReceiveTest
    \/ MLEntry
    \/ MLLabelUnreachable
    \/ MLLabelDone
    \/ MLCompose
    \/ MLLobDone
    \/ MLRespond
    \/ ACEntry
    \/ ACLabelUnreachable
    \/ ACLabelDone
    \/ ACCompose
    \/ ACLobDone
    \/ CLEntry
    \/ CLToken
    \/ CLCarrier
    \/ CLSheets
    \/ CLDocument
    \/ RTEntry
    \/ RTDone
    \/ NeverResolves

Spec == Init /\ [][Next]_vars

\* A step of a handler: the continuation of an await that has resolved.
HandlerStep ==
    \/ MLEntry \/ MLLabelUnreachable \/ MLLabelDone \/ MLCompose \/ MLLobDone \/ MLRespond
    \/ ACEntry \/ ACLabelUnreachable \/ ACLabelDone \/ ACCompose \/ ACLobDone
    \/ CLEntry \/ CLToken \/ CLCarrier \/ CLSheets \/ CLDocument
    \/ RTEntry \/ RTDone

\* The event loop runs a continuation that is ready; whether a service
\* answers is up to the service.
SpecFair == Spec /\ WF_vars(HandlerStep)

\* Requests to mail-label when every external call resolves or rejects.
NextResolving ==
    \/ ReceiveMail
    \/ MLEntry \/ MLLabelUnreachable \/ MLLabelDone \/ MLCompose \/ MLLobDone \/ MLRespond
    \/ CLEntry \/ CLToken \/ CLCarrier \/ CLSheets \/ CLDocument

SpecResolving == Init /\ [][NextResolving]_vars /\ WF_vars(HandlerStep)

-----------------------------------------------------------------------------
(* Several invocations in flight.  Every variable of a handler is a const   *)
(* or let of the invocation (mail-label.js lines 124-418, create-label.js   *)
(* lines 114-289); at module level there are only constants read from the  *)
(* environment.  The event loop runs one continuation at a time, up to its  *)
(* next await, and may then run a continuation of another invocation.       *)

\* The locals of the invocation that is running.
Frame ==
    [target |-> target, req |-> req, pc |-> pc, body |-> body,
     labelResp |-> labelResp, trackingNumber |-> trackingNumber, lobResp |-> lobResp,
     pending |-> pending, res |-> res, cpc |-> cpc, cbody |-> cbody, cl |-> cl,
     cres |-> cres, calls |-> calls, audits |-> audits]

\* Mutant: body is a variable of the module, shared by the invocations.
SwitchSharedBody(i) ==
    /\ i # cur
    /\ parked' = [parked EXCEPT ![cur] = Frame, ![i] = IdleFrame]
    /\ cur' = i
    /\ target' = parked[i].target /\ req' = parked[i].req
    /\ pc' = parked[i].pc /\ body' = body
    /\ labelResp' = parked[i].labelResp /\ trackingNumber' = parked[i].trackingNumber
    /\ lobResp' = parked[i].lobResp /\ pending' = parked[i].pending /\ res' = parked[i].res
    /\ cpc' = parked[i].cpc /\ cbody' = parked[i].cbody /\ cl' = parked[i].cl
    /\ cres' = parked[i].cres /\ calls' = parked[i].calls /\ audits' = parked[i].audits
    /\ UNCHANGED <<env, nreq, issued, uuid, layoutVars, now, refresh>>

\* The running invocation waits at its await and invocation i goes on.
Switch(i) ==
    /\ i # cur
    /\ parked' = [parked EXCEPT ![cur] = Frame, ![i] = IdleFrame]
    /\ cur' = i
    /\ target' = parked[i].target /\ req' = parked[i].req
    /\ pc' = parked[i].pc /\ body' = parked[i].body
    /\ labelResp' = parked[i].labelResp /\ trackingNumber' = parked[i].trackingNumber
    /\ lobResp' = parked[i].lobResp /\ pending' = parked[i].pending /\ res' = parked[i].res
    /\ cpc' = parked[i].cpc /\ cbody' = parked[i].cbody /\ cl' = parked[i].cl
    /\ cres' = parked[i].cres /\ calls' = parked[i].calls /\ audits' = parked[i].audits
    /\ UNCHANGED <<env, nreq, issued, uuid, layoutVars, now, refresh>>

\* The bodies of the concurrent requests: complete, one of 1 lb and one of 2 lb.
ConcurrentBodies ==
    {b \in ObjectBodies :
        /\ \A k \in FieldSet : b.f[k] = "text"
        /\ b.weightOz = 0 /\ b.weightLbs \in {1, 2} /\ ~b.skipLogging}

\* The requests in flight are POSTs to the two handlers with a valid
\* credential; the token endpoint gives a token or refuses, the carrier
\* refuses or gives a label with or without a tracking number, inline or by a
\* document URL, the mail provider refuses or gives a letter id, and the audit
\* webhook accepts what it is sent.
ConcurrentScope ==
    /\ target \in {"none", "mail-label", "create-label"}
    /\ req.method \in {"", "POST"} /\ req.auth \in {"absent", "valid"}
    /\ body \in {NoBody} \cup ConcurrentBodies
    /\ cbody \in {NoBody} \cup ConcurrentBodies
    /\ cl.token \in {"none", "ok", "non2xx"}
    /\ cl.carrier \in {"none", "json", "non2xx"}
    /\ cl.carrier = "json" =>
            /\ cl.label_id = LBL
            /\ (cl.maybeBase64 = "pdf" /\ ~cl.href) \/ (cl.maybeBase64 = "none" /\ cl.href)
    /\ cl.sheetsLogged \in {"skipped", "ok"}
    /\ cl.doc \in {"none", "pdf"}
    /\ cres.status \in {0, 200, 400, 500}
    /\ lobResp.status \in {0, 200, 422}
    /\ pending.sheetsLogged \in {"none", "skipped", "ok"}
    /\ res.sheetsLogged \in {"none", "skipped", "ok"}

InitConcurrent ==
    /\ env = [mail |-> TRUE, lob |-> TRUE, hook |-> TRUE, sera |-> TRUE]
    /\ Idle
    /\ page = <<0, 0>>
    /\ instr = NoInstructions
    /\ out = <<>>
    /\ layout = NoLayout

Continue ==
    /\ \/ ReceiveMail \/ ReceiveCreate
       \/ MLEntry \/ MLLabelUnreachable \/ MLLabelDone \/ MLCompose \/ MLLobDone \/ MLRespond
       \/ CLEntry \/ CLToken \/ CLCarrier \/ CLSheets \/ CLDocument
    /\ ConcurrentScope'

\* A millisecond goes by.
Tick ==
    /\ now < MaxClock
    /\ now' = now + 1
    /\ UNCHANGED <<env, nreq, target, req, mlVars, clVars, calls, audits, issued, uuid,
                   layoutVars, parked, cur, refresh>>

NextConcurrent ==
    \/ Continue
    \/ \E i \in 1..MaxConcurrent : Switch(i)
    \/ Tick

SpecConcurrent == InitConcurrent /\ [][NextConcurrent]_vars

-----------------------------------------------------------------------------
(* Properties *)

WithStatus(st) == {i \in DOMAIN audits : audits[i].status = st}

MailDone == target = "mail-label" /\ pc = "done"

\* A failure before the pipeline: method, configuration or credential.
GateFailure ==
    \/ res.status \in {405, 401}
    \/ res.error \in {"Missing MAIL_USER/MAIL_PASS env vars", "Missing LOB_API_KEY env var"}

\* C1 as claimed, where an audit webhook is configured: every mail-label
\* request that ends in a failure has had exactly one "Exception" audit record
\* posted by the time the response is sent.
C1_EveryFailureAudited ==
    (MailDone /\ env.hook /\ ~res.ok) => Cardinality(WithStatus("Exception")) = 1

\* C1 amended: a mail-label request that fails at the method, configuration or
\* credential gate posts no audit record; one that fails later (missing
\* fields, label stage, composition, mail submission, exception) has exactly
\* one "Exception" record handed to the webhook before the response is sent
\* when a webhook is configured, and none when it is not.
C1_FailureAuditedPastGates ==
    /\ (MailDone /\ ~res.ok /\ GateFailure) => audits = <<>>
    /\ (MailDone /\ ~res.ok /\ ~GateFailure) =>
            Cardinality(WithStatus("Exception")) = (IF env.hook THEN 1 ELSE 0)
    /\ (target = "mail-label" /\ pc = "audit" /\ ~pending.ok) =>
            /\ res = NoRes
            /\ Cardinality(WithStatus("Exception")) = (IF env.hook THEN 1 ELSE 0)

C1_Witness ==
    /\ MailDone /\ env.hook
    /\ res.error = "Failed to parse PDF document"
    /\ Cardinality(WithStatus("Exception")) = 1

\* C2 as claimed, where an audit webhook is configured: a mail-label request
\* in which every stage succeeds has exactly one "Created" audit record posted
\* on its behalf, counting the posts of create-label.
C2_OneCreatedRecord ==
    (MailDone /\ env.hook /\ res.ok) => Cardinality(WithStatus("Created")) = 1

Pos(k) == CHOOSE i \in 1..Len(Fields) : Fields[i] = k

\* fields names exactly the members of miss, in the order of Fields.
ListsInOrder(fields, miss) ==
    /\ {fields[i] : i \in DOMAIN fields} = miss
    /\ Len(fields) = Cardinality(miss)
    /\ \A i, j \in DOMAIN fields : i < j => Pos(fields[i]) < Pos(fields[j])

Lacking(b) == {k \in FieldSet : b.f[k] \in {"absent", "null", "blank"}}

\* The fields that hold the number 0 or false.
Falsy(b) == {k \in FieldSet : b.f[k] \in {"zero", "false"}}

\* C3 as claimed, for a JSON object body and a configured mail-provider key:
\* a request past the credential gate that lacks a required field fails with
\* a validation error, makes zero network calls and lists exactly the missing
\* fields in declaration order.
C3_MissingFieldsNoNetwork ==
    (MailDone /\ env.lob /\ body.kind = "object" /\ Lacking(body) # {}) =>
        /\ res.status = 400 /\ res.error = "Missing required fields"
        /\ ListsInOrder(res.fields, Lacking(body))
        /\ calls = <<>>

\* C3 amended: for a JSON object body that lacks a required field, the
\* mail-label handler (past the credential gate, with the mail-provider key
\* configured) answers 400 listing exactly the missing fields in declaration
\* order and calls neither create-label, the carrier nor the mail provider;
\* its only network call is the post of one "Exception" audit record when a
\* webhook is configured.  create-label called directly answers 400 and makes
\* no network call at all; its list has the missing fields and the fields
\* that hold the number 0 or false, in declaration order.
C3_MissingFieldsOnlyAudit ==
    /\ (MailDone /\ env.lob /\ body.kind = "object" /\ Lacking(body) # {}) =>
            /\ res.status = 400 /\ res.error = "Missing required fields"
            /\ ListsInOrder(res.fields, Lacking(body))
            /\ calls = (IF env.hook THEN <<"audit">> ELSE <<>>)
            /\ Len(audits) = Len(calls)
            /\ \A i \in DOMAIN audits : audits[i].status = "Exception"
    /\ (target = "create-label" /\ cpc = "done" /\ cbody.kind = "object"
            /\ Lacking(cbody) # {}) =>
            /\ cres.status = 400 /\ cres.error = "Missing required fields"
            /\ ListsInOrder(cres.fields, Lacking(cbody) \cup Falsy(cbody))
            /\ calls = <<>> /\ audits = <<>>

C3_Witness ==
    /\ MailDone /\ env.hook
    /\ res.fields = <<"address1", "phone">>
    /\ body.f["address1"] = "blank" /\ body.f["phone"] = "null"
    /\ calls = <<"audit">>

\* C4 as claimed: a request whose inbound credential is wrong or absent is
\* answered 401, with the body unread and no network call made, whatever its
\* method and the configuration.
C4_WrongCredentialAlways401 ==
    (MailDone /\ req.auth # "valid") =>
        res.status = 401 /\ body = NoBody /\ calls = <<>>

\* C4 amended: a POST to the Basic-auth handler with MAIL_USER and MAIL_PASS
\* configured and a wrong or absent credential is answered 401 with the body
\* unread, nothing validated and no network call or audit post made; in the
\* access-code draft a POST whose body parses and whose code is wrong or
\* absent is answered 403 with no network call made.
C4_WrongCredentialGate ==
    /\ (MailDone /\ req.method = "POST" /\ env.mail /\ req.auth # "valid") =>
            res.status = 401 /\ body = NoBody /\ calls = <<>> /\ audits = <<>>
    /\ (target = "mail-label-code" /\ pc = "done" /\ req.method = "POST"
            /\ body.kind # "unread" /\ req.auth # "valid") =>
            res.status = 403 /\ calls = <<>> /\ audits = <<>>

C4_Witness ==
    /\ MailDone /\ req.method = "POST" /\ env.mail /\ req.auth = "wrongPass"
    /\ res.status = 401

Contains(seq, x) == \E i \in DOMAIN seq : seq[i] = x

Complete(b) == b.kind = "object" /\ \A k \in FieldSet : b.f[k] = "text"

CarrierAsked == cl.accessToken

\* The records of mail-label that are built from the body.
MailRecords ==
    {i \in DOMAIN audits :
        audits[i].by = "mail-label" /\ audits[i].latest_event # "Unhandled error"}

\* C6 as claimed: weightOz=20 resolves to 20, weightLbs=2 without weightOz to
\* 32 and weightLbs=1 without weightOz to 16, both in the weight create-label
\* sends to the carrier and in the weight mail-label records.
C6_WeightsAgree ==
    /\ CarrierAsked =>
        /\ cbody.weightOz = 20 => cl.weightOz = 20
        /\ (cbody.weightOz = 0 /\ cbody.weightLbs = 2) => cl.weightOz = 32
        /\ (cbody.weightOz = 0 /\ cbody.weightLbs = 1) => cl.weightOz = 16
    /\ \A i \in MailRecords :
        /\ body.weightOz = 20 => audits[i].weight_oz = 20
        /\ (body.weightOz = 0 /\ body.weightLbs = 2) => audits[i].weight_oz = 32
        /\ (body.weightOz = 0 /\ body.weightLbs = 1) => audits[i].weight_oz = 16

\* C6 amended: the weight mail-label records (in every record but the
\* unhandled-error one, which carries null) is 20 for weightOz=20, 32 for
\* weightLbs=2 without weightOz and 16 for weightLbs=1 without weightOz; the
\* weight create-label sends to the carrier is 32 and 16 in the two weightLbs
\* cases, but for weightOz=20, which is not one of its accepted values 16 and
\* 32, it is weightLbs times 16 when weightLbs is 1 or 2 and the fallback 32
\* otherwise, never 20.
C6_WeightsPerEndpoint ==
    /\ CarrierAsked =>
        /\ cbody.weightOz = 20 =>
                cl.weightOz = (IF cbody.weightLbs \in {1, 2} THEN cbody.weightLbs * 16 ELSE 32)
        /\ (cbody.weightOz = 0 /\ cbody.weightLbs = 2) => cl.weightOz = 32
        /\ (cbody.weightOz = 0 /\ cbody.weightLbs = 1) => cl.weightOz = 16
    /\ \A i \in MailRecords :
        /\ body.weightOz = 20 => audits[i].weight_oz = 20
        /\ (body.weightOz = 0 /\ body.weightLbs = 2) => audits[i].weight_oz = 32
        /\ (body.weightOz = 0 /\ body.weightLbs = 1) => audits[i].weight_oz = 16

C6_Witness ==
    /\ MailDone /\ res.ok /\ body.weightOz = 20
    /\ cl.weightOz = 32
    /\ \E i \in MailRecords : audits[i].weight_oz = 20

\* The label stage has succeeded and has given a tracking number.
LabelIssued ==
    /\ labelResp.ok /\ labelResp.jsonOk /\ labelResp.labelData \in {"pdf", "junk"}
    /\ labelResp.trackingNumber # ""

\* C7 as claimed, where an audit webhook is configured: when the label stage
\* has succeeded and the mail submission then fails, the "Exception" record
\* posted carries the tracking number of the label stage and a last event
\* naming the mail provider's HTTP status.
C7_MailFailureKeepsTracking ==
    (MailDone /\ env.hook /\ LabelIssued /\ Contains(calls, "lob") /\ ~res.ok) =>
        \E i \in WithStatus("Exception") :
            /\ audits[i].tracking_number = labelResp.trackingNumber
            /\ audits[i].latest_event = "Lob letter creation failed. HTTP"
            /\ audits[i].http = lobResp.status

\* C8 as claimed, where an audit webhook is configured: when the label stage
\* has succeeded and document composition then fails, the "Exception" record
\* posted carries the tracking number of the label stage.
C8_ComposeFailureKeepsTracking ==
    (MailDone /\ env.hook /\ LabelIssued /\ labelResp.labelData = "junk") =>
        \E i \in WithStatus("Exception") :
            audits[i].tracking_number = labelResp.trackingNumber

\* C9: for a label page of 288 by 432 units the layout has scale 25/18 on both
\* axes, a drawn size of 400 by 600 and offsets x = 106, y = 96.
C9_FourBySixLayout ==
    (layout.done /\ page = <<288, 432>>) =>
        /\ layout.xScale = Divide(25, 18) /\ layout.yScale = Divide(25, 18)
        /\ layout.drawW = FromInt(400) /\ layout.drawH = FromInt(600)
        /\ layout.x = Signed(FALSE, FromInt(106)) /\ layout.y = Signed(FALSE, FromInt(96))

C9_Witness == layout.done /\ page = <<288, 432>>

\* C10: any two carrier label calls carry distinct Idempotency-Key values,
\* also when their addresses and weight are identical.
C10_KeysDistinct ==
    \A i, j \in DOMAIN issued : i # j => issued[i].key # issued[j].key

C10_Witness ==
    /\ Len(issued) = 2
    /\ issued[1].content = issued[2].content
    /\ issued[1].key # issued[2].key

-----------------------------------------------------------------------------

\* C11: what the audit webhook does with a post (accepts it, rejects it with a
\* non-2xx status, fails in transport, or is not configured and so is never
\* called) never changes the result: the response mail-label sends once the
\* awaited post is over has the status and the ok flag that were decided
\* before the post, and create-label goes on after its post as the carrier's
\* answer alone decides.  No outcome of the post turns into an error response.
C11_AuditOutcomeIgnored ==
    [][ /\ (pc = "audit" /\ pc' = "done") =>
                (res'.status = pending.status /\ res'.ok = pending.ok /\ res'.error = pending.error)
        /\ (cpc = "sheets" /\ cpc' = "done") =>
                IF cl.maybeBase64 # "none"
                THEN cres'.status = 200 /\ cres'.ok
                ELSE ~cl.href /\ cres'.status = 500 /\ ~cres'.ok
        /\ (cpc = "sheets" /\ cpc' = "document") => (cl.maybeBase64 = "none" /\ cl.href)
      ]_vars

\* A request answered 200 although the audit post failed in transport.
C11_Witness ==
    MailDone /\ res.status = 200 /\ res.ok /\ res.sheetsLogged = "error"

Before(a, b) == \A i, j \in DOMAIN calls : (calls[i] = a /\ calls[j] = b) => i < j

\* The "Created" records of the mail-label handler: its success audit.
MailCreated == {i \in DOMAIN audits : audits[i].by = "mail-label" /\ audits[i].status = "Created"}

\* The label stage has handed mail-label a label.
LabelStageOk ==
    /\ labelResp.ok /\ labelResp.jsonOk /\ labelResp.labelData \notin {"none", "empty"}
    /\ Contains(calls, "carrier") /\ cl.accessToken

\* C13: within one request the stages run in the order token refresh, label
\* issuance, document composition, mail submission, success audit: the carrier
\* is called only with a token in hand, composition starts only with a label
\* in hand, the mail provider is called only with the composed document and
\* after every call of the label stage, the success audit of mail-label is
\* posted last and only for an accepted letter; and while create-label is at
\* work for mail-label, mail-label does nothing but await it.
C13_StagesInOrder ==
    /\ Before("create-label", "token") /\ Before("token", "carrier")
    /\ Before("carrier", "document") /\ Before("carrier", "lob") /\ Before("document", "lob")
    /\ Contains(calls, "carrier") => (Contains(calls, "token") /\ cl.accessToken)
    /\ pc \in {"compose", "ac_compose"} => LabelStageOk
    /\ Contains(calls, "lob") => (LabelStageOk /\ labelResp.labelData = "pdf")
    /\ \A i \in MailCreated :
            /\ i = Len(audits)
            /\ Contains(calls, "lob") /\ calls[Len(calls)] = "audit"
            /\ lobResp.ok /\ lobResp.id # ""
    /\ (target # "create-label" /\ cpc \notin {"idle", "done"}) => pc \in {"label", "ac_label"}
    /\ pc \in {"compose", "lob", "audit", "ac_compose", "ac_lob"} => cpc \in {"idle", "done"}

\* All five stages have run.
C13_Witness ==
    /\ MailDone /\ res.ok /\ MailCreated # {}
    /\ Contains(calls, "token") /\ Contains(calls, "carrier") /\ Contains(calls, "lob")

\* The mail-label handler has thrown: JSON.parse of the body, body.email of a
\* null body, a rejected fetch of create-label or of the mail provider, or
\* embedPdf on bytes that are no PDF.
Threw ==
    /\ MailDone /\ req.method = "POST" /\ env.mail
    /\ ~credsRejected(parseBasicAuth(req.auth))
    /\ \/ body = NoBody
       \/ body.kind = "null" /\ env.lob
       \/ Contains(calls, "create-label") /\ labelResp = NoLabelResp
       \/ labelResp # NoLabelResp /\ ~labelFailed(labelResp) /\ labelResp.labelData # "pdf"
       \/ Contains(calls, "lob") /\ lobResp = NoLobResp

\* C14: an exception raised inside the mail-label handler ends in a 500
\* response with ok=false and the error as a string, after exactly one
\* "Exception" record with the unhandled-error event has been handed to the
\* audit webhook (none when no webhook is configured).
C14_ExceptionCaught ==
    Threw =>
        /\ res.status = 500 /\ ~res.ok
        /\ res.error \in {"SyntaxError", "TypeError", "fetch failed", "Failed to parse PDF document"}
        /\ LET mine == {i \in DOMAIN audits : audits[i].by = "mail-label"}
           IN IF env.hook
              THEN /\ Cardinality(mine) = 1
                   /\ \A i \in mine : /\ audits[i].status = "Exception"
                                     /\ audits[i].latest_event = "Unhandled error"
                                     /\ i = Len(audits)
              ELSE audits = <<>>

\* The mail provider could not be reached and the crash record was posted.
C14_Witness ==
    /\ Threw /\ env.hook /\ Contains(calls, "lob")
    /\ audits[Len(audits)].latest_event = "Unhandled error"

\* C15 as claimed: every audit record handed to the webhook for one request,
\* by mail-label and by create-label, carries the same set of field names.
C15_SameKeysEverywhere ==
    \A i, j \in DOMAIN audits : audits[i].keys = audits[j].keys

\* The "Exception" records of the mail-label handler.
MailExceptions ==
    {i \in DOMAIN audits : audits[i].by = "mail-label" /\ audits[i].status = "Exception"}

\* create-label has answered mail-label and the answer counts as a failure:
\* the token refresh failed, the carrier rejected the call or could not be
\* reached, or the answer has no label data.
LabelStageFailed ==
    /\ target = "mail-label" /\ pc \in {"audit", "done"}
    /\ labelResp # NoLabelResp
    /\ (~labelResp.ok \/ ~labelResp.jsonOk \/ labelResp.labelData \in {"none", "empty"})

\* C16: when the label stage fails, mail-label hands the audit webhook exactly
\* one "Exception" record (none when no webhook is configured) whose last
\* event is the label failure with the HTTP status of the create-label call,
\* answers ok=false with that status as httpStatus, and never calls the mail
\* provider.
C16_LabelFailureAudited ==
    LabelStageFailed =>
        /\ ~Contains(calls, "lob")
        /\ MailCreated = {}
        /\ Cardinality(MailExceptions) = (IF env.hook THEN 1 ELSE 0)
        /\ \A i \in MailExceptions :
                /\ audits[i].latest_event = "Label creation failed (Endicia). HTTP"
                /\ audits[i].http = labelResp.status
                /\ audits[i].http = cres.status
        /\ MailDone => (~res.ok /\ res.status = 400 /\ res.httpStatus = labelResp.status)

\* The three failures the label stage can report, each audited.
C16_Witness ==
    /\ MailDone /\ env.hook /\ LabelStageFailed /\ MailExceptions # {}
    /\ cres.error \in {"Token refresh failed", "Label creation failed",
                       "Label created but no label data returned"}

\* The five parts of the customer address all hold text once trimmed.
AddressGiven(b) ==
    b.kind = "object" /\ \A k \in {"name", "address1", "city", "state", "zip"} : b.f[k] = "text"

\* C17: whenever the carrier or the mail provider is called, the name, first
\* address line, city, state and postal code of the customer address used in
\* the call are non-empty after trimming.
C17_AddressNonEmpty ==
    /\ Contains(calls, "carrier") => AddressGiven(cbody)
    /\ Contains(calls, "lob") => AddressGiven(body)
    /\ \A i \in DOMAIN issued : issued[i].content.from # ""

\* Both calls have been made for one request.
C17_Witness ==
    Contains(calls, "carrier") /\ Contains(calls, "lob") /\ AddressGiven(body)

\* C18 as claimed: when the carrier's answer carries a service type, a label
\* id and a postage amount, create-label returns them to mail-label, and the
\* record mail-label posts (Created on success, Exception on a mail failure)
\* carries those values.
C18_CarrierFieldsInAudit ==
    (target = "mail-label" /\ cl.label_id # "") =>
        /\ labelResp.ok =>
                /\ labelResp.service_type = cl.service_type
                /\ labelResp.label_id = cl.label_id
                /\ labelResp.postage = cl.postage
        /\ \A i \in DOMAIN audits :
                (/\ audits[i].by = "mail-label"
                 /\ \/ audits[i].status = "Created"
                    \/ audits[i].latest_event = "Lob letter creation failed. HTTP") =>
                    /\ audits[i].service_type = cl.service_type
                    /\ audits[i].label_id = cl.label_id
                    /\ audits[i].postage_total_usd = cl.postage

\* C19 as claimed: every external call is bounded by a timeout, so a request
\* that has been received is answered in the end, whatever the services do.
C19_EveryRequestAnswered == (~Quiet) ~> Quiet

\* How often a call named x has been made for this request.
Count(x) == Cardinality({i \in DOMAIN calls : calls[i] = x})

\* C20: within one request create-label, the token endpoint, the carrier, the
\* label document and the mail provider are each called at most once; when
\* the token refresh fails the carrier is not called, when the carrier gives
\* no label neither the label document nor the mail provider is called, when
\* the label stage fails the mail provider is not called, and when the mail
\* provider rejects the letter no success record is posted.
C20_NoRetryNoContinue ==
    /\ \A x \in {"create-label", "token", "carrier", "document", "lob"} : Count(x) <= 1
    /\ ~cl.accessToken =>
            (Count("carrier") = 0 /\ Count("document") = 0 /\ Count("lob") = 0)
    /\ (cl.maybeBase64 = "none" /\ ~cl.href) => (Count("document") = 0 /\ Count("lob") = 0)
    /\ (~cres.ok \/ cres.labelData # "pdf") => (Count("lob") = 0 /\ MailCreated = {})
    /\ (~lobResp.ok \/ lobResp.id = "") => MailCreated = {}
    /\ (target = "mail-label" /\ pc \in {"audit", "done"} /\ MailExceptions # {}) =>
            MailCreated = {}

\* Each endpoint has been called once and the mail provider has refused.
C20_Witness ==
    /\ MailDone /\ ~res.ok /\ lobResp.status = 422
    /\ Count("token") = 1 /\ Count("carrier") = 1 /\ Count("lob") = 1

-----------------------------------------------------------------------------
\* The label request the carrier was sent in the request being handled.
Sent == issued[Len(issued)]

\* C21: the package weight create-label sends to the carrier is always 16 or
\* 32 ounces: weightOz when it is 16 or 32, otherwise weightLbs times 16 when
\* weightLbs is 1 or 2, otherwise 32; an accepted weightOz wins over weightLbs.
C21_CarrierWeightPolicy ==
    /\ \A i \in DOMAIN issued : issued[i].content.weight \in {16, 32}
    /\ CarrierAsked =>
        /\ cbody.weightOz \in {16, 32} => Sent.content.weight = cbody.weightOz
        /\ (cbody.weightOz \notin {16, 32} /\ cbody.weightLbs \in {1, 2}) =>
                Sent.content.weight = cbody.weightLbs * 16
        /\ (cbody.weightOz \notin {16, 32} /\ cbody.weightLbs \notin {1, 2}) =>
                Sent.content.weight = 32

\* An accepted weightOz and a different accepted weightLbs in one body.
C21_Witness ==
    /\ CarrierAsked /\ cbody.weightOz = 16 /\ cbody.weightLbs = 2
    /\ Sent.content.weight = 16

\* A token answer has arrived for the request being handled.
TokenAnswered == cl.token # "none"

\* C22: getAccessToken fails when the token endpoint is unreachable, answers
\* non-2xx or answers without access_token, and create-label never calls the
\* carrier unless getAccessToken returned a token in the same request.
C22_NoTokenNoCarrier ==
    /\ (TokenAnswered /\ cl.token # "ok") =>
            /\ ~cl.accessToken
            /\ cpc \in {"done", "idle"} /\ cres.status = 500 /\ ~cres.ok
            /\ ~Contains(calls, "carrier")
    /\ Contains(calls, "carrier") => (cl.token = "ok" /\ cl.accessToken)

\* The token endpoint answered 2xx without access_token.
C22_Witness ==
    /\ cl.token = "noToken" /\ cpc = "done" /\ cres.error = "Token refresh failed"
    /\ Contains(calls, "token")

\* Some call of the pipeline has been made: label, token, carrier or mail.
StageCalled ==
    \E i \in DOMAIN calls : calls[i] \in {"create-label", "token", "carrier", "document", "lob"}

\* The request has been answered by the handler the client called.
Answered ==
    \/ target \in {"mail-label", "mail-label-code"} /\ pc = "done"
    \/ target = "create-label" /\ cpc = "done"

\* The answer the client got.
Answer == IF target = "create-label" THEN cres ELSE res

ConfigErrors ==
    {"Missing MAIL_USER/MAIL_PASS env vars", "Missing LOB_API_KEY env var", "Missing env vars"}

\* A secret the called handler requires is missing.
SecretMissing ==
    \/ target = "mail-label" /\ (~env.mail \/ ~env.lob)
    \/ target = "create-label" /\ ~env.sera

\* C23 as claimed: when a secret the handler requires is missing, the request
\* is answered with a 500 configuration error before any stage runs, with no
\* label, mail or token call made.
C23_MissingSecretAlways500 ==
    (Answered /\ SecretMissing) =>
        /\ Answer.status = 500 /\ Answer.error \in ConfigErrors
        /\ ~StageCalled /\ audits = <<>>

\* C23 amended: with a required secret missing no label, mail or token call
\* is made, whatever the answer.  A POST to create-label without its client
\* id, client secret or refresh token, and a POST to mail-label without its
\* credential pair, are answered with the 500 configuration error.  A POST to
\* mail-label without the mail-provider key gets that error only when the
\* credential is right and the body parses: a wrong credential is answered
\* 401 first, and a body that does not parse 500 by the catch block, with an
\* audit record.  A request that is not a POST is answered 405.
C23_ConfigErrorAfterGates ==
    (Answered /\ SecretMissing) =>
        /\ ~StageCalled
        /\ req.method # "POST" => Answer.status = 405
        /\ (req.method = "POST" /\ target = "create-label") =>
                cres = Res(500, FALSE, "Missing env vars") /\ calls = <<>>
        /\ (req.method = "POST" /\ target = "mail-label" /\ ~env.mail) =>
                /\ res = Res(500, FALSE, "Missing MAIL_USER/MAIL_PASS env vars")
                /\ calls = <<>> /\ audits = <<>>
        /\ (req.method = "POST" /\ target = "mail-label" /\ env.mail) =>
                IF credsRejected(parseBasicAuth(req.auth))
                THEN res.status = 401 /\ audits = <<>>
                ELSE IF body = NoBody
                THEN /\ res = Res(500, FALSE, "SyntaxError")
                     /\ env.hook => Cardinality(MailExceptions) = 1
                ELSE /\ res = Res(500, FALSE, "Missing LOB_API_KEY env var")
                     /\ calls = <<>> /\ audits = <<>>

\* The mail-provider key is missing and the request passes the gates before it.
C23_Witness ==
    /\ MailDone /\ req.method = "POST" /\ env.mail /\ ~env.lob /\ req.auth = "valid"
    /\ body # NoBody
    /\ res.error = "Missing LOB_API_KEY env var"

\* create-label has answered, to the client or to mail-label.
CreateAnswered == cpc \in {"done", "idle"} /\ cres # NoRes

C27_OkOnlyWithLetter ==
    /\ (MailDone /\ res.ok) =>
        /\ lobResp.ok /\ lobResp.id # ""
        /\ res.status = 200
        /\ res.letterId = lobResp.id /\ res.lobStatus = lobResp.lstatus
    /\ (MailDone /\ lobResp # NoLobResp /\ (~lobResp.ok \/ lobResp.id = "")) => ~res.ok

\* The provider answered 2xx without a letter id.
C27_Witness ==
    /\ MailDone /\ lobResp.ok /\ lobResp.id = "" /\ ~res.ok
    /\ Contains(calls, "lob")

\* The audit records create-label has handed to postToSheets in this request.
CreatePosts == {i \in DOMAIN audits : audits[i].by = "create-label"}

\* The carrier answered the label call with a 2xx status.
Carrier2xx == cl.carrier \in {"json", "notJson"}

\* C29 as claimed, where an audit webhook is configured: create-label posts
\* an audit record if and only if skipLogging is not exactly true and the
\* carrier answered 2xx.
C29_PostIffNotSkippedAnd2xx ==
    (CreateAnswered /\ env.hook) =>
        (CreatePosts # {} <=> (~cbody.skipLogging /\ Carrier2xx))

\* C30: for every request body, the weight_oz mail-label writes to its audit
\* record equals the package weight create-label sent to the carrier for the
\* same request.
C30_AuditWeightIsSentWeight ==
    (target = "mail-label" /\ CarrierAsked) =>
        \A i \in MailRecords : audits[i].weight_oz = Sent.content.weight

-----------------------------------------------------------------------------
\* The instructions pages of the composed document.
CopiedPages == {i \in DOMAIN out : out[i].from = "instructions"}

\* C24: the composed document is all pages of the instructions document in
\* their original order, then exactly one new 612 by 792 page holding the
\* label; without an instructions document it is that one page; its page
\* count is the instructions page count plus one.
C24_InstructionsThenLabelSheet ==
    layout.done =>
        /\ Len(out) = (IF instr.exists THEN instr.pages ELSE 0) + 1
        /\ \A i \in 1..(Len(out) - 1) : out[i].from = "instructions" /\ out[i].index = i
        /\ out[Len(out)].from = "new" /\ out[Len(out)].holds = "label"
        /\ out[Len(out)].size = <<612, 792>>
        /\ Cardinality(DOMAIN out \ CopiedPages) = 1
        /\ ~instr.exists => Len(out) = 1

\* An instructions document of two pages.
C24_Witness ==
    /\ layout.done /\ instr.exists /\ instr.pages = 2
    /\ Len(out) = 3 /\ out[3].holds = "label"

\* n + 2^-k and n - 2^-k for a whole number n
JustAbove(n, k) == AddUnit(FromInt(n), WholeBits + k)
JustBelow(n, k) ==
    Row([i \in 1..Width |-> IF i <= WholeBits THEN FromInt(n - 1)[i]
                            ELSE IF i <= WholeBits + k THEN 1 ELSE 0])

Near(p, n, k) == Leq(JustBelow(n, k), p) /\ Leq(p, JustAbove(n, k))

\* C25 as claimed: for every label page the layout uses one scale for both
\* axes, has drawW <= 420 and drawH <= 600 with one of the two bounds met with
\* equality, and centres the label: x = (612 - drawW)/2 >= 96 and
\* y = (792 - drawH)/2 >= 96.
C25_FitsTargetBox ==
    layout.done =>
        /\ layout.xScale = layout.yScale
        /\ Leq(layout.drawW, FromInt(420)) /\ Leq(layout.drawH, FromInt(600))
        /\ (layout.drawW = FromInt(420) \/ layout.drawH = FromInt(600))
        /\ layout.x = Centre(612, layout.drawW) /\ layout.y = Centre(792, layout.drawH)
        /\ ~layout.x.neg /\ Leq(FromInt(96), layout.x.mag)
        /\ ~layout.y.neg /\ Leq(FromInt(96), layout.y.mag)

\* C25 amended: the layout is a function of the label page dimensions only,
\* uses one scale for both axes and centres the label, and meets the bounds
\* up to the rounding of the two operations behind each drawn size:
\* drawW <= 420 + 2^-44 and drawH <= 600 + 2^-43, one of the two within that
\* distance of its bound, x >= 96 - 2^-45 and y >= 96 - 2^-44.  For pages
\* whose sides are whole inches the bounds hold as claimed, without rounding.
C25_FitsTargetBoxRounded ==
    layout.done =>
        /\ layout = labelLayout(page[1], page[2])
        /\ layout.xScale = layout.yScale
        /\ Leq(layout.drawW, JustAbove(420, 44)) /\ Leq(layout.drawH, JustAbove(600, 43))
        /\ (Near(layout.drawW, 420, 44) \/ Near(layout.drawH, 600, 43))
        /\ layout.x = Centre(612, layout.drawW) /\ layout.y = Centre(792, layout.drawH)
        /\ ~layout.x.neg /\ Leq(JustBelow(96, 45), layout.x.mag)
        /\ ~layout.y.neg /\ Leq(JustBelow(96, 44), layout.y.mag)
        /\ (page[1] % 72 = 0 /\ page[2] % 72 = 0) =>
            /\ Leq(layout.drawW, FromInt(420)) /\ Leq(layout.drawH, FromInt(600))
            /\ (layout.drawW = FromInt(420) \/ layout.drawH = FromInt(600))
            /\ Leq(FromInt(96), layout.x.mag) /\ Leq(FromInt(96), layout.y.mag)

\* A square page of 312 units: 312 * (420 / 312) rounds to 420 + 2^-44.
C25_Witness ==
    /\ layout.done /\ page = <<312, 312>>
    /\ layout.drawW = JustAbove(420, 44)
    /\ layout.x.mag = JustBelow(96, 45)

-----------------------------------------------------------------------------
\* The invocations, running or waiting.
Invocations == {Frame} \cup {parked[i] : i \in 1..MaxConcurrent}

\* What invocation f has answered and recorded is made of its own body and of
\* the answers to its own label and mail calls.
Own(f) ==
    /\ f.target = "mail-label" =>
        /\ f.cbody # NoBody => f.body = f.cbody
        /\ f.labelResp # NoLabelResp => f.labelResp.trackingNumber = f.cres.trackingNumber
        /\ (f.pc = "done" /\ f.res.ok) =>
                /\ f.res.trackingNumber = f.labelResp.trackingNumber
                /\ f.res.letterId = f.lobResp.id
    /\ (f.target = "create-label" /\ f.cpc = "done" /\ f.cres.ok) =>
            f.cres.trackingNumber = f.cl.trackingNumber
    /\ \A i \in DOMAIN f.audits :
        LET a == f.audits[i]
        IN /\ (a.by = "mail-label" /\ a.latest_event # "Unhandled error") =>
                /\ a.weight_oz = normalizeWeightOz(f.cbody)
                /\ a.customer_name = OrEmpty(requireField(f.cbody, "name"))
                /\ a.tracking_number \in {"", f.labelResp.trackingNumber}
                /\ a.lob_letter_id \in {"", f.lobResp.id}
           /\ a.by = "create-label" =>
                /\ a.weight_oz = clNormalizeWeightOz(f.cbody)
                /\ a.tracking_number = f.cl.trackingNumber

\* C28: with several requests handled concurrently, under every interleaving
\* of the completions of their external calls, the response and the audit
\* records of each request hold only data of its own body and of its own label
\* and mail responses.
C28_NoCrossTalk == \A f \in Invocations : Own(f)

\* Two mail-label requests with different bodies in flight at once: one has
\* been answered while the other waits for the mail provider.
C28_Witness ==
    /\ target = "mail-label" /\ pc = "done" /\ res.ok
    /\ \E i \in 1..MaxConcurrent :
        /\ i # cur
        /\ parked[i].target = "mail-label" /\ parked[i].pc = "lob"
        /\ parked[i].body # body
        /\ parked[i].calls # <<>> /\ Len(audits) > 0

-----------------------------------------------------------------------------
\* C31: an audit record with status "Created" is posted only for a request
\* whose response is ok=true: no endpoint posts a "Created" record and then
\* answers the same request with ok=false.
C31_CreatedOnlyForOk ==
    (Answered /\ WithStatus("Created") # {}) => Answer.ok

\* C32: create-label answers ok=true with labelData only when label bytes
\* were obtained, inline or from the document URL; when the fetch of the
\* document URL is answered with a non-2xx status it does not report success.
C32_SuccessOnlyWithLabelBytes ==
    (CreateAnswered /\ cres.ok) =>
        /\ cl.maybeBase64 # "none" \/ cl.doc \in {"pdf", "junk", "empty"}
        /\ cl.doc # "non2xx"

\* The request being handled passed an inbound credential gate: the Basic
\* credential of mail-label or the access code of the draft.
PassedGate ==
    /\ target \in {"mail-label", "mail-label-code"}
    /\ req.auth = "valid"

C35_AcceptedByBoth ==
    (target = "mail-label" /\ cres # NoRes /\ ~seraConfigMissing) =>
        /\ Contains(calls, "token")
        /\ cres.status # 400

\* The request ids of the audit records of invocation f.
RequestIds(f) == {f.audits[i].request_id : i \in DOMAIN f.audits}

\* C34: the audit records posted for two distinct request attempts never
\* carry the same request_id, also when the two requests fail concurrently at
\* the same clock reading.
C34_RequestIdsDistinct ==
    \A i, j \in 1..MaxConcurrent :
        (i # j /\ i # cur) =>
            RequestIds(parked[i]) \cap RequestIds(IF j = cur THEN Frame ELSE parked[j]) = {}

\* C38: the token refresh test endpoint reports ok=true with "Access token
\* refresh worked" only when the token endpoint answered 2xx with an access
\* token, and its response never contains the access token itself.
C38_RefreshReportsToken ==
    refresh.pc = "done" =>
        /\ (refresh.res.ok /\ refresh.res.text = "Access token refresh worked") =>
                /\ refresh.resp.status \in 200..299
                /\ refresh.resp.data = "token"
        /\ refresh.res.data # "token"

\* C37: in every response of the mail-label and create-label handlers the
\* body has ok=true if and only if the HTTP status is 200.
C37_OkIffStatus200 ==
    /\ (target = "mail-label" /\ res # NoRes) => (res.ok <=> res.status = 200)
    /\ cres # NoRes => (cres.ok <=> cres.status = 200)

\* mail-label has answered 200 with ok=true after create-label answered it
\* 200 with ok=true.
C37_Witness ==
    /\ MailDone /\ res.ok /\ res.status = 200
    /\ cres.ok /\ cres.status = 200

\* C36: provided every external call eventually resolves or rejects, every
\* request to the mail-label handler eventually sends a response; once the
\* response is sent it is not replaced and no external call is started for
\* the request.
C36_AnswersOnceThenStops ==
    /\ (target = "mail-label" /\ pc = "start") ~> (MailDone /\ res # NoRes)
    /\ [][(target = "mail-label" /\ res # NoRes /\ nreq' = nreq) =>
            (res' = res /\ calls' = calls /\ audits' = audits)]_vars

\* mail-label has answered a request for which it called create-label, the
\* mail provider and the audit webhook, all of which answered.
C36_Witness ==
    /\ MailDone /\ res # NoRes
    /\ Contains(calls, "create-label") /\ Contains(calls, "lob") /\ Contains(calls, "audit")
====
